---- MODULE Spec2Model ----
(***************************************************************************)
(* Closed-loop laser-current control of the laser speckle analyser.        *)
(*                                                                         *)
(* Two applications of the repository are modelled:                        *)
(*   - laser_speckle_UI/updated_widget.py  (class LaserSpeckleUI, with the *)
(*     decision engine calculate_current_adjustment, the manual-override   *)
(*     timer and the deferred analysis callbacks), and                     *)
(*   - laser_speckle_UI/main.py            (class LaserSpeckleUI built on  *)
(*     modules/analysis/analyzer.py, class ImageAnalyzer).                 *)
(*                                                                         *)
(* Python floats are modelled as fixed-point integers: U units are one     *)
(* percentage point (or 1.0 of any other real quantity).                   *)
(***************************************************************************)
EXTENDS Integers, Sequences, FiniteSets, TLC

\* ------------------------------------------------------------------------
\* Arithmetic helpers
\* ------------------------------------------------------------------------

\* Fixed-point resolution: U units represent the real number 1.0.
U == 100 * 100

\* The decimal literal n/d of the source, in fixed point (0.3 is Dec(3, 10)).
Dec(n, d) == (n * U) \div d

AbsV(x) == IF x < 0 THEN -x ELSE x

Min2(a, b) == IF a < b THEN a ELSE b

Max2(a, b) == IF a > b THEN a ELSE b

\* Division that truncates toward zero, as Python's int() does on a quotient.
TDiv(a, b) == IF a >= 0 THEN a \div b ELSE -((-a) \div b)

\* round(x) in place of int(x): the nearest whole unit.
PyIntRound(x) == (x + U \div 2) \div U

\* Python's int(x) on the fixed-point number x: truncation toward zero,
\* result in whole units.
PyInt(x) == TDiv(x, U)

\* Optional values (Python None / a value) are sequences of length 0 or 1.
None == << >>

Some(v) == << v >>

\* dict.get(key, default)
Get(results, key, default) == IF key \in DOMAIN results THEN results[key] ELSE default

RECURSIVE SumSeq(_)
SumSeq(s) == IF s = << >> THEN 0 ELSE Head(s) + SumSeq(Tail(s))

\* ------------------------------------------------------------------------
\* Decision engine of updated_widget.py:
\*   LaserSpeckleUI.calculate_current_adjustment(results, method)
\* The engine state is the record
\*   [current_value, prev_high_sum, stable_count,
\*    last_mean_values, last_adjustment_values].
\* ------------------------------------------------------------------------

\* Capacity of the two rolling histories.
HISTORY_CAP == 5

\* The append that makes room by dropping the newest entry held.
AppendDropNewest(list, x) ==
    IF Len(list) >= HISTORY_CAP
    THEN Append(SubSeq(list, 1, HISTORY_CAP - 1), x)
    ELSE Append(list, x)

\* list.append(x) followed by "if len(list) > 5: list.pop(0)".
AppendCapped(list, x) ==
    LET appended == Append(list, x)
    IN  IF Len(appended) > HISTORY_CAP THEN Tail(appended) ELSE appended

\* Bounds of the critical operating region of the actuator percentage.
CRITICAL_LOW == 19

CRITICAL_HIGH == 21

InCritical(current_value) ==
    CRITICAL_LOW <= current_value /\ current_value <= CRITICAL_HIGH

optimal_mean_min == 40 * U

optimal_mean_max == 60 * U

optimal_sat_min == 35 * U

optimal_sat_max == 45 * U

\* norm_mean = (weighted_mean / 255) * 100
NormMean(weighted_mean) == (weighted_mean * 100) \div 255

\* The engine reads stable_count only through ">= 2", ">= 5",
\* "min(0.6, stable_count * 0.15)" and "min(0.8, stable_count * 0.2)": every
\* count from 5 on acts alike, and the count is kept at most at this value.
StableCap == 6

\* Stable-reading tracking of the histogram method.
HistogramStability(self, high_sum) ==
    LET counted ==
            IF self.prev_high_sum # None
            THEN IF AbsV(high_sum - self.prev_high_sum[1]) < Dec(1, 10)
                 THEN Min2(StableCap, self.stable_count + 1)
                 ELSE 0
            ELSE self.stable_count
    IN  [self EXCEPT !.stable_count = counted, !.prev_high_sum = Some(high_sum)]

\* The if/elif ladder of the histogram method: the index of the first rung
\* whose condition holds (CASE 0 .. CASE 9 of the source).
HistogramRung(norm_mean, high_sum, highest_bin, weighted_sat) ==
    LET in_optimal_mean == optimal_mean_min <= norm_mean /\ norm_mean <= optimal_mean_max
    IN  IF norm_mean < 2 * U \/ high_sum < Dec(1, 100) THEN 0
        ELSE IF norm_mean < (optimal_mean_min * 7) \div 10
                \/ high_sum < (optimal_sat_min * 3) \div 10 THEN 1
        ELSE IF highest_bin > 5 * U \/ weighted_sat > 2 * U
                \/ high_sum > optimal_sat_max * 3 THEN 2
        ELSE IF highest_bin > 2 * U \/ weighted_sat > 1 * U THEN 3
        ELSE IF norm_mean < optimal_mean_min /\ high_sum < optimal_sat_max THEN 4
        ELSE IF norm_mean > optimal_mean_max /\ high_sum > optimal_sat_min THEN 5
        ELSE IF in_optimal_mean /\ high_sum < optimal_sat_min THEN 6
        ELSE IF in_optimal_mean /\ high_sum > optimal_sat_max THEN 7
        ELSE IF in_optimal_mean /\ optimal_sat_min <= high_sum
                /\ high_sum <= optimal_sat_max THEN 8
        ELSE 9

\* CASE 0: extremely dark.
HistogramDark(self, norm_mean) ==
    LET base == IF norm_mean < 1 * U THEN 3 * U
                ELSE IF norm_mean < 2 * U THEN 2 * U
                ELSE 1 * U
        at19 == IF self.current_value = 19 THEN 1 * U ELSE base
        earlier == SubSeq(self.last_mean_values, 1, Len(self.last_mean_values) - 1)
    IN  IF self.current_value <= 20 /\ self.current_value >= 18
           /\ Len(self.last_mean_values) >= 2
           /\ \E i \in 1..Len(earlier) : earlier[i] > 30 * U
        THEN Dec(3, 10)
        ELSE at19

\* CASE 2: significant oversaturation.
HistogramOversaturated(self, high_sum) ==
    LET base == IF high_sum > 60 * U THEN -Dec(5, 10)
                ELSE IF high_sum > 40 * U THEN -Dec(3, 10)
                ELSE IF high_sum > 20 * U THEN -Dec(2, 10)
                ELSE -Dec(1, 10)
        at21 == IF self.current_value = 21 THEN -(1 * U) ELSE base
        earlier == SubSeq(self.last_mean_values, 1, Len(self.last_mean_values) - 1)
    IN  IF self.current_value <= 20 /\ self.current_value >= 19
           /\ Len(self.last_mean_values) >= 2
           /\ \E i \in 1..Len(earlier) : earlier[i] < 10 * U
        THEN -Dec(1, 10)
        ELSE at21

\* CASE 9: the scaling of the combined factor.
ProportionalScale(combined_factor) ==
    IF AbsV(combined_factor) < Dec(1, 10) THEN TDiv(combined_factor * 5, 10)
    ELSE IF AbsV(combined_factor) < Dec(5, 10) THEN TDiv(combined_factor * 6, 10)
    ELSE TDiv(combined_factor * 8, 10)

\* CASE 9: proportional fallback.
HistogramProportional(norm_mean, high_sum) ==
    LET mean_deficit == optimal_mean_min - norm_mean
        mean_excess == norm_mean - optimal_mean_max
        mean_factor ==
            IF norm_mean < optimal_mean_min
            THEN Min2(2 * U,
                      IF mean_deficit < 3 * U THEN mean_deficit \div 10
                      ELSE IF mean_deficit < 8 * U
                           THEN Dec(3, 10) + ((mean_deficit - 3 * U) * 15) \div 100
                           ELSE Dec(105, 100) + ((mean_deficit - 8 * U) * 25) \div 100)
            ELSE IF norm_mean > optimal_mean_max
            THEN Max2(-(2 * U),
                      IF mean_excess < 3 * U THEN -(mean_excess \div 10)
                      ELSE IF mean_excess < 8 * U
                           THEN -Dec(3, 10) - ((mean_excess - 3 * U) * 15) \div 100
                           ELSE -Dec(105, 100) - ((mean_excess - 8 * U) * 25) \div 100)
            ELSE 0
        sat_deficit == optimal_sat_min - high_sum
        sat_excess == high_sum - optimal_sat_max
        sat_factor ==
            IF high_sum < optimal_sat_min
            THEN Min2(Dec(15, 10),
                      IF sat_deficit < Dec(1, 10) THEN (sat_deficit * 8) \div 10
                      ELSE IF sat_deficit < Dec(3, 10)
                           THEN Dec(8, 100) + (sat_deficit - Dec(1, 10)) * 2
                           ELSE Dec(48, 100) + (sat_deficit - Dec(3, 10)))
            ELSE IF high_sum > optimal_sat_max
            THEN Max2(-Dec(15, 10),
                      IF sat_excess < Dec(1, 10) THEN -((sat_excess * 8) \div 10)
                      ELSE IF sat_excess < Dec(3, 10)
                           THEN -Dec(8, 100) - (sat_excess - Dec(1, 10)) * 2
                           ELSE -Dec(48, 100) - (sat_excess - Dec(3, 10)))
            ELSE 0
    IN  ProportionalScale(TDiv(mean_factor * 6, 10) + TDiv(sat_factor * 4, 10))

\* The nominal delta of the rung selected by the ladder.
HistogramCase(rung, self, norm_mean, high_sum, highest_bin, weighted_sat) ==
    LET mean_deficit == optimal_mean_min - norm_mean
    IN  IF rung = 0 THEN HistogramDark(self, norm_mean)
        ELSE IF rung = 1 THEN Dec(15, 10)
        ELSE IF rung = 2 THEN HistogramOversaturated(self, high_sum)
        ELSE IF rung = 3
             THEN IF highest_bin > Dec(35, 10) \/ weighted_sat > Dec(15, 10)
                  THEN -Dec(4, 10) ELSE -Dec(2, 10)
        ELSE IF rung = 4
             THEN IF mean_deficit > 15 * U THEN Dec(15, 10)
                  ELSE IF mean_deficit > 7 * U THEN 1 * U
                  ELSE IF mean_deficit > 3 * U THEN Dec(7, 10)
                  ELSE Dec(3, 10)
        ELSE IF rung = 5
             THEN IF norm_mean - optimal_mean_max > 15 * U
                  THEN -Dec(5, 10) ELSE -Dec(2, 10)
        ELSE IF rung = 6
             THEN IF optimal_sat_min - high_sum > 10 * U
                  THEN 1 * U ELSE Dec(5, 10)
        ELSE IF rung = 7
             THEN IF high_sum - optimal_sat_max > 10 * U
                  THEN -Dec(5, 10) ELSE -Dec(2, 10)
        ELSE IF rung = 8 THEN 0
        ELSE HistogramProportional(norm_mean, high_sum)

\* The ladder of the histogram method.
HistogramNominal(self, norm_mean, high_sum, highest_bin, weighted_sat) ==
    HistogramCase(HistogramRung(norm_mean, high_sum, highest_bin, weighted_sat),
                  self, norm_mean, high_sum, highest_bin, weighted_sat)

\* The double (1 - damping) in fixed point, damping given in percent.  The
\* doubles 1 - 0.8 and 1 - 0.9 lie below 1/5 and 1/10, so a product with
\* them lies below the exact product; one resolution step is taken off
\* the factor so that "abs(adjustment) < threshold" agrees with the code.
OneMinus(damping) ==
    IF damping >= 80 THEN (100 - damping) * (U \div 100) - 1
    ELSE (100 - damping) * (U \div 100)

\* Stability damping of the histogram method, in percent.
DampingPercent(self, adjustment) ==
    LET by_direction == IF adjustment > 0
                        THEN Min2(60, self.stable_count * 15)
                        ELSE Min2(80, self.stable_count * 20)
    IN  IF InCritical(self.current_value)
        THEN IF self.stable_count >= 5 THEN 90
             ELSE Min2(80, by_direction + 20)
        ELSE by_direction

StabilityDamping(self, adjustment) ==
    IF self.stable_count >= 2 /\ adjustment # 0
    THEN TDiv(adjustment * OneMinus(DampingPercent(self, adjustment)), U)
    ELSE adjustment

\* Direction-dependent hysteresis of the histogram method.
HistogramHysteresis(self, adjustment) ==
    IF adjustment < 0 /\ AbsV(adjustment) < Dec(7, 100) THEN 0
    ELSE IF adjustment > 0 /\ AbsV(adjustment) < Dec(2, 100) THEN 0
    ELSE IF InCritical(self.current_value)
         THEN IF adjustment < 0 /\ AbsV(adjustment) < Dec(15, 100) THEN 0
              ELSE IF adjustment > 0 /\ AbsV(adjustment) < Dec(1, 10) THEN 0
              ELSE adjustment
    ELSE adjustment

\* method == "histogram" after the stable-reading tracking: the branch's
\* result [adjustment, norm_mean, self].
HistogramDecision(tracked, results) ==
    LET highest_bin == Get(results, "highest_bin_percentage", 0)
        weighted_sat == Get(results, "weighted_saturation_percentage", 0)
        high_sum == Get(results, "high_intensity_sum", 0)
        norm_mean == NormMean(Get(results, "weighted_mean", 0))
    IN  [adjustment |->
             HistogramHysteresis(
                 tracked,
                 StabilityDamping(
                     tracked,
                     HistogramNominal(tracked, norm_mean, high_sum,
                                      highest_bin, weighted_sat))),
         norm_mean |-> norm_mean,
         self |-> tracked]

\* method == "histogram".
HistogramMethod(self, results) ==
    HistogramDecision(HistogramStability(self, Get(results, "high_intensity_sum", 0)),
                      results)

\* method == "pixel_count".
PixelCountMethod(self, results) ==
    IF "is_saturated" \in DOMAIN results /\ results["is_saturated"]
    THEN LET sat_percent == Get(results, "weighted_saturation_percentage", 0)
             norm_mean == 70 * U
         IN  [adjustment |-> IF sat_percent > 2 * U THEN -(5 * U)
                             ELSE IF sat_percent > 1 * U THEN -(2 * U)
                             ELSE IF sat_percent > Dec(5, 10) THEN -(1 * U)
                             ELSE -Dec(5, 10),
              norm_mean |-> norm_mean,
              self |-> [self EXCEPT !.last_mean_values = AppendCapped(@, norm_mean)]]
    ELSE IF "saturated_pixels" \in DOMAIN results
    THEN LET sat_pixels == Get(results, "saturated_pixels", 0)
             total_pixels == Get(results, "total_pixels", 1)
             max_value == Get(results, "max_value", 255)
             norm_mean == (max_value * U * 100) \div 255
             pixel_percentage == (sat_pixels * 100 * U) \div total_pixels
         IN  [adjustment |->
                  IF sat_pixels = 0
                  THEN IF max_value < 50 THEN 3 * U
                       ELSE IF max_value < 100 THEN Dec(15, 10)
                       ELSE IF max_value < 150 THEN 1 * U
                       ELSE IF max_value < 180 THEN Dec(7, 10)
                       ELSE IF max_value < 220 THEN Dec(5, 10)
                       ELSE Dec(3, 10)
                  ELSE IF 35 * U <= pixel_percentage /\ pixel_percentage <= 45 * U THEN 0
                  ELSE IF 45 * U < pixel_percentage /\ pixel_percentage <= 55 * U
                       THEN -Dec(5, 10)
                  ELSE IF 55 * U < pixel_percentage /\ pixel_percentage <= 65 * U
                       THEN -(1 * U)
                  ELSE -(2 * U),
              norm_mean |-> norm_mean,
              self |-> [self EXCEPT !.last_mean_values = AppendCapped(@, norm_mean)]]
    ELSE [adjustment |-> 0, norm_mean |-> 0, self |-> self]

\* method == "contrast".
ContrastMethod(self, results) ==
    IF "mean_contrast" \in DOMAIN results
    THEN LET contrast_value == Get(results, "mean_contrast", 0)
             norm_mean == IF contrast_value < Dec(2, 100) THEN 5 * U
                          ELSE IF contrast_value > Dec(3, 10) THEN 60 * U
                          ELSE 30 * U
         IN  [adjustment |->
                  IF contrast_value < Dec(5, 1000) THEN 3 * U
                  ELSE IF contrast_value < Dec(2, 100) THEN 2 * U
                  ELSE IF contrast_value < Dec(5, 100) THEN 1 * U
                  ELSE IF contrast_value < Dec(8, 100) THEN 1 * U
                  ELSE IF contrast_value < Dec(9, 100) THEN Dec(5, 10)
                  ELSE IF contrast_value <= Dec(26, 100) THEN 0
                  ELSE IF contrast_value <= Dec(28, 100) THEN -Dec(5, 10)
                  ELSE IF contrast_value <= Dec(32, 100) THEN -(1 * U)
                  ELSE IF contrast_value <= Dec(4, 10) THEN -(2 * U)
                  ELSE -Dec(5, 10),
              norm_mean |-> norm_mean,
              self |-> [self EXCEPT !.last_mean_values = AppendCapped(@, norm_mean)]]
    ELSE [adjustment |-> 0, norm_mean |-> 0, self |-> self]

min_adjustment_threshold == Dec(3, 10)

\* General hysteresis: adjustments below the threshold are zeroed.
MinimumHysteresis(adjustment) ==
    IF AbsV(adjustment) < min_adjustment_threshold THEN 0 ELSE adjustment

\* The delta passed on without the asymmetric limits.
Unlimited(adjustment) == adjustment

\* Asymmetric limits: increases up to 3.0, decreases down to -0.5.
AsymmetricLimit(adjustment) ==
    IF adjustment > 0 THEN Min2(3 * U, adjustment) ELSE Max2(-Dec(5, 10), adjustment)

\* Oscillation pattern over the rolling histories.
IsOscillating(means, adjustments) ==
    LET m == Len(means)
        a == Len(adjustments)
    IN  /\ m >= 3
        /\ a >= 3
        /\ \/ /\ AbsV(means[m] - means[m - 1]) > 30 * U
              /\ AbsV(means[m - 1] - means[m - 2]) > 30 * U
           \/ /\ adjustments[a] > 0
              /\ adjustments[a - 1] < 0
           \/ /\ adjustments[a] < 0
              /\ adjustments[a - 1] > 0

\* Conservative delta used when an oscillation is detected.
AntiOscillation(norm_mean, adjustment) ==
    IF norm_mean > 40 * U /\ adjustment < 0
    THEN Max2(-Dec(1, 10), TDiv(adjustment, 5))
    ELSE IF norm_mean < 10 * U /\ adjustment > 0
    THEN Min2(Dec(5, 10), TDiv(adjustment, 2))
    ELSE adjustment

\* The end of calculate_current_adjustment: the limited delta is recorded
\* and the oscillation check run on the histories.
OscillationCheck(norm_mean, limited, recorded) ==
    [adjustment |->
         IF IsOscillating(recorded.last_mean_values, recorded.last_adjustment_values)
         THEN AntiOscillation(norm_mean, limited)
         ELSE limited,
     self |-> recorded]

RecordAdjustment(norm_mean, limited, self) ==
    OscillationCheck(norm_mean, limited,
                     [self EXCEPT !.last_adjustment_values = AppendCapped(@, limited)])

\* calculate_current_adjustment after the method's branch.
AfterBranch(branch) ==
    RecordAdjustment(branch.norm_mean,
                     AsymmetricLimit(MinimumHysteresis(branch.adjustment)),
                     branch.self)

\* calculate_current_adjustment: the returned delta and the engine state
\* left behind.
calculate_current_adjustment(self, results, method) ==
    AfterBranch(IF method = "histogram" THEN HistogramMethod(self, results)
                ELSE IF method = "pixel_count" THEN PixelCountMethod(self, results)
                ELSE IF method = "contrast" THEN ContrastMethod(self, results)
                ELSE [adjustment |-> 0, norm_mean |-> 0, self |-> self])


\* ------------------------------------------------------------------------
\* Frames and the reports the three estimators produce for them.
\* A report is the dict the estimator returns, restricted to the keys the
\* decision engines read; keys an estimator does not produce are absent.
\* ------------------------------------------------------------------------

\* "dark":    uniform 8-bit image, every pixel 2.
\* "bright":  uniform 8-bit image, every pixel 255.
\* "speckle": well exposed speckle pattern: mean 127.5, 40% of the weight
\*            above the high-intensity threshold, no pixel above the
\*            saturation threshold, local contrast 0.2.
\* "glint":   black image with a cluster of pixels at 255 that carries 1.5%
\*            of the weight.
Frames == {"dark", "bright", "speckle", "glint"}

\* Number of pixels of a frame.
FramePixels == 400

\* analyze_saturation_by_histogram
HistogramReport(frame) ==
    IF frame = "dark"
    THEN [weighted_mean |-> 2 * U, high_intensity_sum |-> 0,
          highest_bin_percentage |-> 0, is_saturated |-> FALSE, max_intensity |-> 2]
    ELSE IF frame = "bright"
    THEN [weighted_mean |-> 255 * U, high_intensity_sum |-> 100 * U,
          highest_bin_percentage |-> 100 * U, is_saturated |-> TRUE, max_intensity |-> 255]
    ELSE IF frame = "speckle"
    THEN [weighted_mean |-> Dec(1275, 10), high_intensity_sum |-> 40 * U,
          highest_bin_percentage |-> 0, is_saturated |-> TRUE, max_intensity |-> 249]
    ELSE [weighted_mean |-> Dec(3825, 1000), high_intensity_sum |-> Dec(15, 10),
          highest_bin_percentage |-> Dec(15, 10), is_saturated |-> TRUE,
          max_intensity |-> 255]

\* analyze_saturation_by_pixel_count
PixelCountReport(frame) ==
    IF frame = "bright"
    THEN [saturated_pixels |-> FramePixels, saturated_percentage |-> 100 * U,
          weighted_saturation_percentage |-> 100 * U, is_saturated |-> TRUE]
    ELSE IF frame = "glint"
    THEN [saturated_pixels |-> (FramePixels * 15) \div 1000,
          saturated_percentage |-> Dec(15, 10),
          weighted_saturation_percentage |-> Dec(15, 10), is_saturated |-> TRUE]
    ELSE [saturated_pixels |-> 0, saturated_percentage |-> 0,
          weighted_saturation_percentage |-> 0, is_saturated |-> FALSE]

\* analyze_contrast
ContrastReport(frame) ==
    IF frame = "speckle"
    THEN [mean_contrast |-> Dec(2, 10), global_contrast |-> Dec(2, 10)]
    ELSE IF frame = "glint"
    THEN [mean_contrast |-> Dec(34, 10), global_contrast |-> Dec(81, 10)]
    ELSE [mean_contrast |-> 0, global_contrast |-> 0]

Methods == <<"histogram", "pixel_count", "contrast">>

\* Reports beyond those of the four frames, one per branch of the decision
\* engines that the four frames leave out.
SurveyHistogram ==
    << [weighted_mean |-> 30 * U, high_intensity_sum |-> 0,
        highest_bin_percentage |-> 0],
       [weighted_mean |-> 51 * U, high_intensity_sum |-> 5 * U,
        highest_bin_percentage |-> 0],
       [weighted_mean |-> Dec(1275, 10), high_intensity_sum |-> 40 * U,
        highest_bin_percentage |-> 3 * U],
       [weighted_mean |-> Dec(1275, 10), high_intensity_sum |-> 40 * U,
        highest_bin_percentage |-> 4 * U],
       [weighted_mean |-> Dec(8925, 100), high_intensity_sum |-> 40 * U,
        highest_bin_percentage |-> 0],
       [weighted_mean |-> 204 * U, high_intensity_sum |-> 40 * U,
        highest_bin_percentage |-> 0],
       [weighted_mean |-> Dec(1275, 10), high_intensity_sum |-> 20 * U,
        highest_bin_percentage |-> 0],
       [weighted_mean |-> Dec(1275, 10), high_intensity_sum |-> 60 * U,
        highest_bin_percentage |-> 0],
       [weighted_mean |-> 100 * U, high_intensity_sum |-> 100 * U,
        highest_bin_percentage |-> 0] >>

SurveyPixelCount ==
    << [saturated_pixels |-> 1, is_saturated |-> FALSE],
       [saturated_pixels |-> 0, max_value |-> 40, is_saturated |-> FALSE],
       [saturated_pixels |-> 0, saturation_percentage |-> 3 * U,
        weighted_saturation_percentage |-> Dec(8, 10), is_saturated |-> TRUE] >>

SurveyContrast ==
    << [mean_contrast |-> Dec(3, 100), global_contrast |-> Dec(25, 100)],
       [mean_contrast |-> Dec(85, 1000), global_contrast |-> Dec(35, 100)],
       [mean_contrast |-> Dec(27, 100), global_contrast |-> Dec(45, 100)],
       [mean_contrast |-> Dec(3, 10), global_contrast |-> Dec(6, 10)],
       [mean_contrast |-> Dec(36, 100), global_contrast |-> Dec(15, 100)] >>

\* Frames of the survey: the four frames and nine more, the n-th of which
\* yields the n-th histogram report and takes the other two reports in turn.
SurveyNames == <<"survey1", "survey2", "survey3", "survey4", "survey5",
                 "survey6", "survey7", "survey8", "survey9">>

SurveyFrames == Frames \cup {SurveyNames[n] : n \in 1..Len(SurveyNames)}

SurveyReport(frame, method) ==
    LET n == CHOOSE k \in 1..Len(SurveyNames) : SurveyNames[k] = frame
    IN  IF method = "histogram" THEN SurveyHistogram[n]
        ELSE IF method = "pixel_count"
             THEN SurveyPixelCount[(n % Len(SurveyPixelCount)) + 1]
        ELSE SurveyContrast[(n % Len(SurveyContrast)) + 1]

\* The report of an estimator for a frame.
Report(frame, method) ==
    IF frame \notin Frames THEN SurveyReport(frame, method)
    ELSE IF method = "histogram" THEN HistogramReport(frame)
    ELSE IF method = "pixel_count" THEN PixelCountReport(frame)
    ELSE ContrastReport(frame)

\* ------------------------------------------------------------------------
\* The estimators, computed from the pixels.
\*   histogram_saturation_analyzer.analyze_saturation_by_histogram
\*   saturation_pixel_count_analyzer.analyze_saturation_by_pixel_count
\* An 8-bit image with its weight mask is a sequence of runs
\* [value, count, weight]: count pixels of that value, each of that weight.
\* The empty sequence is the image of a region of size zero.
\* ------------------------------------------------------------------------

\* Weights are kept in halves: WeightOne units are the weight 1.0.
WeightOne == 2

\* floor(a * b / c) for a, c >= 0, computed without leaving 32 bits.
MulDiv(a, b, c) == (a \div c) * b + ((a % c) * b) \div c

\* The float nan, which numpy returns for 0/0 (with a RuntimeWarning, no
\* exception).  NaN is kept apart from every number the model computes.
NaN == -(U * U)

\* x / y * 100 on numpy scalars and arrays: nan or inf where y is zero; a
\* zero divisor meets only a zero dividend here.
Percentage(x, y) == IF y = 0 THEN NaN ELSE MulDiv(x, 100 * U, y)

\* x > y on floats: False when either side is nan.
FloatGt(x, y) == x # NaN /\ y # NaN /\ x > y

\* np.sum over the pixels of term(run) per pixel.
SumPixels(img, term(_)) ==
    SumSeq([i \in 1..Len(img) |-> img[i].count * term(img[i])])

\* np.sum(weight_mask)
TotalWeight(img) == LET weight(run) == run.weight IN SumPixels(img, weight)

\* img.size
TotalPixels(img) == LET one(run) == 1 IN SumPixels(img, one)

\* A threshold of a tenth of the range in place of nine tenths: int(255 * 0.1).
high_threshold_tenth == (255 * 1) \div 10

\* "int(max_possible_value * high_intensity_threshold)" = int(255 * 0.9)
high_threshold_8bit == 229

\* A saturation threshold of the whole range: int(255 * 1.0).
sat_threshold_full == (255 * 100) \div 100

\* "int(max_possible_value * saturation_threshold)" = int(255 * 0.98)
sat_threshold_value == 249

\* np.sum(hist[first:]): the weight in the histogram bins first..255.  With
\* bins=256 and range=(0, 255), the value v falls into bin v.
BinWeight(img, first) ==
    LET in_bins(run) == IF run.value >= first THEN run.weight ELSE 0
    IN  SumPixels(img, in_bins)

\* np.average(flat_img, weights=flat_weights), the weights not summing to
\* zero.
WeightedMean(img, total_weight) ==
    LET weighted(run) == run.value * run.weight
    IN  MulDiv(SumPixels(img, weighted), U, total_weight)

\* np.max(img) of an image that has pixels.
MaxIntensity(img) ==
    CHOOSE v \in {img[i].value : i \in 1..Len(img)} :
        \A i \in 1..Len(img) : img[i].value <= v

\* What an estimator call ends with: the dict returned, or the exception
\* raised.
Returned(results) == [raised |-> FALSE, results |-> results]

Raised(error) == [raised |-> TRUE, error |-> error]

\* The body of analyze_saturation_by_histogram once total_weight is known.
\* np.average raises ZeroDivisionError ("Weights sum to zero, can't be
\* normalized") after hist_percentage has been computed.
HistogramOfWeight(img, total_weight, high_intensity_sum, highest_bin_percentage) ==
    IF total_weight = 0
    THEN Raised("ZeroDivisionError")
    ELSE Returned([high_intensity_sum |-> high_intensity_sum,
                   highest_bin_percentage |-> highest_bin_percentage,
                   max_intensity |-> MaxIntensity(img),
                   is_saturated |-> \/ FloatGt(highest_bin_percentage, Dec(1, 10))
                                    \/ FloatGt(high_intensity_sum, 10 * U),
                   weighted_mean |-> WeightedMean(img, total_weight)])

HistogramPercentages(img, total_weight) ==
    HistogramOfWeight(img, total_weight,
                      Percentage(BinWeight(img, high_threshold_8bit), total_weight),
                      Percentage(BinWeight(img, 255), total_weight))

\* analyze_saturation_by_histogram(img, weight_mask=weight_mask)
analyze_saturation_by_histogram(img) == HistogramPercentages(img, TotalWeight(img))

\* The body of analyze_saturation_by_pixel_count once the sums are known.
PixelCountOfSums(saturated_pixels, weighted_saturation, total_weight, total_pixels) ==
    Returned([saturated_pixels |-> saturated_pixels,
              saturated_percentage |-> Percentage(saturated_pixels, total_pixels),
              weighted_saturation_percentage |->
                  Percentage(weighted_saturation, total_weight),
              is_saturated |->
                  \/ weighted_saturation > 100 * WeightOne
                  \/ FloatGt(Percentage(weighted_saturation, total_weight),
                             Dec(5, 10))])

\* analyze_saturation_by_pixel_count(img, weight_mask=weight_mask)
analyze_saturation_by_pixel_count(img) ==
    LET saturated(run) == IF run.value > sat_threshold_value THEN 1 ELSE 0
        weighted(run) == IF run.value > sat_threshold_value THEN run.weight ELSE 0
    IN  PixelCountOfSums(SumPixels(img, saturated), SumPixels(img, weighted),
                         TotalWeight(img), TotalPixels(img))

\* analyze_contrast(img, weight_mask=weight_mask) as far as its first
\* np.average, which raises when the weights sum to zero.
ContrastOfWeight(total_weight, results) ==
    IF total_weight = 0 THEN Raised("ZeroDivisionError") ELSE Returned(results)

\* The region of interest of a "void" frame: no pixel at all.
VoidImage == << >>

\* What the estimator of a method ends with on a frame.
Estimate(frame, method) ==
    IF frame # "void" THEN Returned(Report(frame, method))
    ELSE IF method = "histogram" THEN analyze_saturation_by_histogram(VoidImage)
    ELSE IF method = "pixel_count" THEN analyze_saturation_by_pixel_count(VoidImage)
    ELSE ContrastOfWeight(TotalWeight(VoidImage), ContrastReport(frame))

\* ------------------------------------------------------------------------
\* State
\* ------------------------------------------------------------------------

VARIABLES
    app,                    \* what runs: "updated_widget", "main", or "survey"
    scene,                  \* what the camera looks at: "free", "alternating", "steady",
                            \* "survey", or "bench" (one image, put to the estimators)
    \* --- updated_widget.py, LaserSpeckleUI ---
    current_value,          \* actuator percentage (int, 0..100)
    auto_mode,              \* automatic mode selected
    manual_override_active, \* manual override in force
    override_timer,         \* pending expiries of override_timer: remaining seconds
    capturing,              \* capture_timer running, camera open
    roi_selected,           \* roi_center and roi_radius are not None
    current_image,          \* None or Some(frame)
    pending_analyses,       \* QTimer.singleShot(.., generate_analysis) not yet fired
    method_radio,           \* checked analysis radio button
    last_recommendation,    \* None or Some(final_adjustment)
    prev_high_sum,          \* None or Some(high_sum)
    stable_count,
    last_mean_values,
    last_adjustment_values,
    serial_port,            \* TRUE: a serial connection is held, FALSE: None
    dispatch,               \* None, or the send_current_to_arduino call of the last step
    \* --- main.py, LaserSpeckleUI with ImageAnalyzer and ArduinoController ---
    m_current_value,        \* actuator percentage (float, fixed point)
    is_auto_mode,
    m_capturing,
    m_current_image,
    current_method,
    analyzer,               \* ImageAnalyzer's tracking attributes
    m_serial_port,
    m_dispatch,             \* None, or the send_current call of the last step
    \* --- the estimators on the bench ---
    specimen,               \* the image with its weight mask, as runs
    verdict,                \* None, or what the last estimator call ended with
    weight_field,           \* None, or the last weight field built
    \* --- bookkeeping of the verification ---
    elapsed_since_manual,   \* seconds since the last slider move in automatic mode
    last_delta,             \* per-estimator deltas returned in the last analysis
    last_errors,            \* estimators whose failure the last analysis logged
    trace,                  \* under a scripted scene: one entry per analysis cycle
    cycles,                 \* analysis cycles run so far
    inputs                  \* operator inputs made so far

engine_vars == <<prev_high_sum, stable_count, last_mean_values, last_adjustment_values>>

override_vars == <<manual_override_active, override_timer, elapsed_since_manual>>

camera_vars == <<capturing, roi_selected, current_image, pending_analyses>>

link_vars == <<serial_port, dispatch>>

widget_vars == <<current_value, auto_mode, method_radio, last_recommendation,
                 engine_vars, override_vars, camera_vars, link_vars>>

main_vars == <<m_current_value, is_auto_mode, m_capturing, m_current_image,
               current_method, analyzer, m_serial_port, m_dispatch>>

bench_vars == <<specimen, verdict, weight_field>>

vars == <<app, scene, widget_vars, main_vars, bench_vars, last_delta, last_errors,
         trace, cycles, inputs>>

\* ------------------------------------------------------------------------
\* Bounds of the exploration
\* ------------------------------------------------------------------------

\* Analysis cycles explored per run under the free scene.
MaxCycles == 3

\* Analysis cycles explored per run under a scripted scene.
MaxTicks == 12

\* Engine calls explored per run of the survey.
MaxCalls == 3

\* Operator inputs (clicks, slider moves) explored per run.
MaxInputs == 4

\* Deferred analysis callbacks outstanding at once.
MaxPending == 2

\* Slider positions the operator moves the control to.
SliderValues == {0, 21, 100}

\* Frames the camera delivers; the region of interest of "void" has size
\* zero.
CameraFrames == {"dark", "bright", "void"}

\* Frames a scripted scene shows the camera.
PatternFrames == {"dark", "bright"}

\* Frames the operator loads from a file.
FileFrames == {"glint"}

\* The analysis cycles a run may take; the endless loop takes any number.
CycleBudget ==
    IF scene = "free" THEN MaxCycles
    ELSE IF scene = "endless" THEN 2
    ELSE IF scene \in {"survey", "bench"} THEN MaxCalls
    ELSE MaxTicks

\* The count of analysis cycles after one more; the endless loop only
\* remembers that a cycle has run.
CountCycle == IF scene = "endless" THEN 1 ELSE cycles + 1

\* ------------------------------------------------------------------------
\* Timers
\* ------------------------------------------------------------------------

\* Override expiry after a manual input, in seconds (override_timer.start(2000)).
OVERRIDE_S == 2

\* Pause after a critical-oscillation lock (override_timer.start(5000)).
CRITICAL_PAUSE_S == 5

\* QTimer.start(msec) on a timer that is running, in place of the restart:
\* the earlier expiry stays pending beside the new one.
QTimerStack(timer, seconds) == Append(timer, seconds)

\* QTimer.start(msec) on the single-shot override_timer: a running timer is
\* stopped and restarted, so the pending expiry is replaced.
QTimerStart(timer, seconds) == << seconds >>

\* One second passes for every pending expiry.
QTimerAdvance(timer) ==
    [i \in 1..Len(timer) |-> IF timer[i] > 0 THEN timer[i] - 1 ELSE 0]

\* Some pending expiry is due.
QTimerDue(timer) == \E i \in 1..Len(timer) : timer[i] = 0

\* The timer after its first due expiry has fired.
QTimerFire(timer) ==
    LET i == CHOOSE k \in 1..Len(timer) :
                 timer[k] = 0 /\ \A j \in 1..(k - 1) : timer[j] # 0
    IN  SubSeq(timer, 1, i - 1) \o SubSeq(timer, i + 1, Len(timer))

\* ------------------------------------------------------------------------
\* Actuator link
\* ------------------------------------------------------------------------

\* What serial_port.write does: "ok", an exception ("error"), or an exception
\* reporting a lost connection, after which setup_serial_connection either
\* finds the device again ("reconnected") or does not ("lost").
SendOutcomes == {"ok", "error", "reconnected", "lost"}

\* send_current_to_arduino(current_percent): the connection afterwards and
\* whether the packet was written.
send_current_to_arduino(port, outcome) ==
    IF ~port THEN [serial_port |-> FALSE, written |-> FALSE]
    ELSE IF outcome = "ok" THEN [serial_port |-> TRUE, written |-> TRUE]
    ELSE IF outcome = "lost" THEN [serial_port |-> FALSE, written |-> FALSE]
    ELSE [serial_port |-> TRUE, written |-> FALSE]

\* A step that does not call send_current_to_arduino.
NoSend == dispatch' = None /\ UNCHANGED serial_port

\* A step that drops the call send_current_to_arduino(value).
SendDropped(value) == NoSend

\* A step that calls send_current_to_arduino(value).
Send(value) ==
    \E outcome \in SendOutcomes :
        LET sent == send_current_to_arduino(serial_port, outcome)
        IN  /\ serial_port' = sent.serial_port
            /\ dispatch' = Some([value |-> value, written |-> sent.written])

\* A step of main.py that does not call ArduinoController.send_current.
MNoSend == m_dispatch' = None /\ UNCHANGED m_serial_port

\* A step of main.py that calls ArduinoController.send_current(value).
MSend(value) ==
    \E outcome \in SendOutcomes :
        LET sent == send_current_to_arduino(m_serial_port, outcome)
        IN  /\ m_serial_port' = sent.serial_port
            /\ m_dispatch' = Some([value |-> value, written |-> sent.written])

\* A handler of updated_widget.py runs, one of main.py runs.
Widget == app = "updated_widget" /\ UNCHANGED <<app, scene, main_vars, bench_vars>>

Main == app = "main" /\ UNCHANGED <<app, scene, widget_vars, bench_vars>>

\* The handler answers an operator input, or a timer.
Operator == scene = "free" /\ inputs < MaxInputs /\ inputs' = inputs + 1

Environment == UNCHANGED inputs

\* ------------------------------------------------------------------------
\* updated_widget.py: analysis cycle
\* ------------------------------------------------------------------------

\* "self.ui.currentSlider.setValue(value)": the slider keeps the value
\* within its range 0..100.
update_current_ui_only(value) == Max2(0, Min2(100, value))

\* The widget seen as the engine's self.
Self == [current_value |-> current_value,
         prev_high_sum |-> prev_high_sum,
         stable_count |-> stable_count,
         last_mean_values |-> last_mean_values,
         last_adjustment_values |-> last_adjustment_values]

\* Methods run for the checked radio button, in the order of the source.
Selected(radio) == IF radio = "all" THEN Methods ELSE << radio >>

\* "adjustment = max(-5.0, min(5.0, adjustment))"
LimitFive(adjustment) == Max2(-(5 * U), Min2(5 * U, adjustment))

\* One estimator block of generate_analysis that went through: the
\* adjustment is limited and collected, the engine state carried on.
Collect(acc, step) ==
    [adjustments |-> Append(acc.adjustments, LimitFive(step.adjustment)),
     errors |-> acc.errors,
     self |-> step.self]

\* The except clause of an estimator block: the error is logged.
LogFailure(acc, method) == [acc EXCEPT !.errors = Append(@, method)]

\* An estimator block whose except clause takes the adjustment to be zero.
BlockCountsFailure(acc, method, outcome) ==
    IF outcome.raised
    THEN [LogFailure(acc, method) EXCEPT !.adjustments = Append(@, 0)]
    ELSE Collect(acc, calculate_current_adjustment(acc.self, outcome.results, method))

\* One estimator block of generate_analysis: try the estimator and the
\* decision engine, except Exception log the error.
Block(acc, method, outcome) ==
    IF outcome.raised
    THEN LogFailure(acc, method)
    ELSE Collect(acc, calculate_current_adjustment(acc.self, outcome.results, method))

\* The estimator blocks of generate_analysis, run one after the other on
\* the same engine state.
RECURSIVE RunBlocks(_, _, _)
RunBlocks(acc, frame, methods) ==
    IF methods = << >>
    THEN acc
    ELSE RunBlocks(Block(acc, Head(methods), Estimate(frame, Head(methods))),
                   frame, Tail(methods))

\* The per-estimator adjustments of a frame, the failures logged and the
\* engine state left.
RunEstimators(self, frame, methods) ==
    RunBlocks([adjustments |-> << >>, errors |-> << >>, self |-> self],
              frame, methods)

\* "final_adjustment = sum(adjustments) / len(adjustments)"
FinalAdjustment(adjustments) == SumSeq(adjustments) \div Len(adjustments)

\* NewValue without the clamp to 0..100.
NewValueUnclamped(current, adjustment) == PyInt(current * U + adjustment)

\* "max(0, min(100, int(current_value + adjustment)))"
NewValue(current, adjustment) ==
    Max2(0, Min2(100, PyInt(current * U + adjustment)))

\* The critical-region check at the head of generate_analysis: the signs of
\* the last four recorded adjustments alternate.
CriticalOscillation ==
    LET n == Len(last_adjustment_values)
        sign(k) == IF last_adjustment_values[n - 4 + k] > 0 THEN 1 ELSE -1
    IN  /\ auto_mode
        /\ InCritical(current_value)
        /\ n >= 4
        /\ sign(1) # sign(2)
        /\ sign(2) # sign(3)
        /\ sign(3) # sign(4)

\* Under a scripted scene the analysis cycle is put on record.
Record(frame, delta, target) ==
    trace' = IF scene \in {"free", "endless"} THEN trace
             ELSE Append(trace, [frame |-> frame, delta |-> delta, target |-> target])

\* The end of generate_analysis with the mode left out of the test.
RecommendAnyMode(frame, run, final_adjustment, new_value) ==
    /\ prev_high_sum' = run.self.prev_high_sum
    /\ stable_count' = run.self.stable_count
    /\ last_mean_values' = run.self.last_mean_values
    /\ last_adjustment_values' = run.self.last_adjustment_values
    /\ last_delta' = run.adjustments
    /\ last_errors' = run.errors
    /\ last_recommendation' = Some(final_adjustment)
    /\ IF ~manual_override_active /\ new_value # current_value
       THEN /\ current_value' = update_current_ui_only(new_value)
            /\ Send(new_value)
       ELSE NoSend /\ UNCHANGED current_value
    /\ Record(frame, final_adjustment, current_value' * U)
    /\ UNCHANGED <<manual_override_active, override_timer>>

\* The end of generate_analysis: the recommendation is stored and, in
\* automatic mode without override, applied and sent.
Recommend(frame, run, final_adjustment, new_value) ==
    /\ prev_high_sum' = run.self.prev_high_sum
    /\ stable_count' = run.self.stable_count
    /\ last_mean_values' = run.self.last_mean_values
    /\ last_adjustment_values' = run.self.last_adjustment_values
    /\ last_delta' = run.adjustments
    /\ last_errors' = run.errors
    /\ last_recommendation' = Some(final_adjustment)
    /\ IF auto_mode /\ ~manual_override_active /\ new_value # current_value
       THEN /\ current_value' = update_current_ui_only(new_value)
            /\ Send(new_value)
       ELSE NoSend /\ UNCHANGED current_value
    /\ Record(frame, final_adjustment, current_value' * U)
    /\ UNCHANGED <<manual_override_active, override_timer>>

Fuse(frame, run, final_adjustment) ==
    Recommend(frame, run, final_adjustment, NewValue(current_value, final_adjustment))

\* The end of generate_analysis when no estimator block left an adjustment
\* ("if adjustments:" fails): nothing is recommended or applied.
NoRecommendation(frame, run) ==
    /\ prev_high_sum' = run.self.prev_high_sum
    /\ stable_count' = run.self.stable_count
    /\ last_mean_values' = run.self.last_mean_values
    /\ last_adjustment_values' = run.self.last_adjustment_values
    /\ last_delta' = run.adjustments
    /\ last_errors' = run.errors
    /\ NoSend
    /\ Record(frame, 0, current_value * U)
    /\ UNCHANGED <<current_value, last_recommendation, manual_override_active,
                   override_timer>>

\* generate_analysis
generate_analysis ==
    /\ current_image # None
    /\ cycles < CycleBudget
    /\ cycles' = CountCycle
    /\ IF CriticalOscillation
       THEN /\ current_value' = update_current_ui_only(20)
            /\ Send(20)
            /\ manual_override_active' = TRUE
            /\ override_timer' = QTimerStart(override_timer, CRITICAL_PAUSE_S)
            /\ Record(current_image[1], 0, 20 * U)
            /\ UNCHANGED <<engine_vars, last_recommendation, last_delta, last_errors>>
       ELSE \E run \in {RunEstimators(Self, current_image[1], Selected(method_radio))} :
                IF run.adjustments # << >>
                THEN Fuse(current_image[1], run, FinalAdjustment(run.adjustments))
                ELSE NoRecommendation(current_image[1], run)
    /\ UNCHANGED elapsed_since_manual

\* ------------------------------------------------------------------------
\* updated_widget.py: handlers
\* ------------------------------------------------------------------------

\* The operator moves the current slider: update_laser_intensity(value).
SliderMove(value) ==
    /\ Widget /\ Operator
    /\ value # current_value
    /\ current_value' = value
    /\ Send(value)
    /\ IF auto_mode
       THEN /\ manual_override_active' = TRUE
            /\ stable_count' = 0
            /\ prev_high_sum' = None
            /\ override_timer' = QTimerStart(override_timer, OVERRIDE_S)
            /\ elapsed_since_manual' = 0
       ELSE UNCHANGED <<override_vars, stable_count, prev_high_sum>>
    /\ UNCHANGED <<auto_mode, method_radio, last_recommendation, camera_vars,
                   last_mean_values, last_adjustment_values,
                   last_delta, last_errors,
                   trace, cycles>>

\* The operator clicks "Auto Adjust": set_auto_mode.
SetAutoMode ==
    /\ Widget /\ Operator
    /\ auto_mode' = TRUE
    /\ IF last_recommendation # None
       THEN LET new_value == NewValue(current_value, last_recommendation[1])
            IN  /\ current_value' = update_current_ui_only(new_value)
                /\ Send(new_value)
       ELSE NoSend /\ UNCHANGED current_value
    /\ UNCHANGED <<method_radio, last_recommendation, engine_vars, override_vars,
                   camera_vars, last_delta, last_errors,
                   trace, cycles>>

\* The operator clicks "Manual Adjust": set_manual_mode.
SetManualMode ==
    /\ Widget /\ Operator
    /\ auto_mode
    /\ auto_mode' = FALSE
    /\ NoSend
    /\ UNCHANGED <<current_value, method_radio, last_recommendation, engine_vars,
                   override_vars, camera_vars, last_delta, last_errors,
                   trace, cycles>>

\* The operator checks another analysis radio button.
SelectMethod(radio) ==
    /\ Widget /\ Operator
    /\ radio # method_radio
    /\ method_radio' = radio
    /\ NoSend
    /\ UNCHANGED <<current_value, auto_mode, last_recommendation, engine_vars,
                   override_vars, camera_vars, last_delta, last_errors,
                   trace, cycles>>

\* The operator draws a region of interest: update_roi.
UpdateRoi ==
    /\ Widget /\ Operator
    /\ ~roi_selected
    /\ roi_selected' = TRUE
    /\ NoSend
    /\ UNCHANGED <<current_value, auto_mode, method_radio, last_recommendation,
                   engine_vars, override_vars, capturing, current_image,
                   pending_analyses, last_delta, last_errors,
                   trace, cycles>>

\* The operator clicks "Reset ROI": reset_roi.
ResetRoi ==
    /\ Widget /\ Operator
    /\ roi_selected
    /\ roi_selected' = FALSE
    /\ NoSend
    /\ UNCHANGED <<current_value, auto_mode, method_radio, last_recommendation,
                   engine_vars, override_vars, capturing, current_image,
                   pending_analyses, last_delta, last_errors,
                   trace, cycles>>

\* The operator loads a raw image file: load_image, which resets the ROI.
LoadImage(frame) ==
    /\ Widget /\ Operator
    /\ current_image' = Some(frame)
    /\ roi_selected' = FALSE
    /\ NoSend
    /\ UNCHANGED <<current_value, auto_mode, method_radio, last_recommendation,
                   engine_vars, override_vars, capturing, pending_analyses,
                   last_delta, last_errors,
                   trace, cycles>>

\* The operator clicks "Analyze": generate_analysis.
AnalyzeButton ==
    /\ Widget /\ Operator
    /\ generate_analysis
    /\ UNCHANGED <<auto_mode, method_radio, camera_vars>>

\* A deferred QTimer.singleShot(delay, self.generate_analysis) fires.
DeferredAnalysis ==
    /\ Widget /\ Environment
    /\ pending_analyses > 0
    /\ pending_analyses' = pending_analyses - 1
    /\ generate_analysis
    /\ UNCHANGED <<auto_mode, method_radio, capturing, roi_selected, current_image>>

\* The operator clicks "Start": start_capture with a camera attached.
StartCapture ==
    /\ Widget /\ Operator
    /\ ~capturing
    /\ capturing' = TRUE
    /\ NoSend
    /\ UNCHANGED <<current_value, auto_mode, method_radio, last_recommendation,
                   engine_vars, override_vars, roi_selected, current_image,
                   pending_analyses, last_delta, last_errors,
                   trace, cycles>>

\* The operator clicks "Stop": stop_capture.
StopCapture ==
    /\ Widget /\ Operator
    /\ capturing
    /\ capturing' = FALSE
    /\ NoSend
    /\ UNCHANGED <<current_value, auto_mode, method_radio, last_recommendation,
                   engine_vars, override_vars, roi_selected, current_image,
                   pending_analyses, last_delta, last_errors,
                   trace, cycles>>

\* What capture_frame meets beside a frame: "failed" (GrabOne raises or
\* returns None) and "selecting" (preview_canvas.is_selecting, the frame is
\* skipped).  The camera stays open while capture runs.
GrabFailures == {"failed", "selecting"}

\* The last frame analysed under a scripted scene.
LastFrame == trace[Len(trace)].frame

\* What capture_frame can meet in the present scene.
GrabResults ==
    IF scene = "free" THEN CameraFrames \cup GrabFailures
    ELSE IF scene = "survey" THEN SurveyFrames
    ELSE IF scene = "endless" THEN {"bright"}
    ELSE IF trace = << >> THEN PatternFrames
    ELSE IF scene = "steady" THEN {LastFrame}
    ELSE PatternFrames \ {LastFrame}

\* capture_frame that schedules the analysis without storing the frame.
capture_frame_stale(image, pending, grab, force_analysis, override) ==
    [current_image |-> image,
     pending_analyses |->
         IF grab \notin GrabFailures /\ roi_selected /\ auto_mode
            /\ (~override \/ force_analysis)
         THEN pending + 1
         ELSE pending]

\* capture_frame(force_analysis) with self.manual_override_active = override:
\* the image kept and the number of deferred analyses afterwards.
capture_frame(image, pending, grab, force_analysis, override) ==
    IF grab \notin GrabFailures
    THEN [current_image |-> Some(grab),
          pending_analyses |->
              IF roi_selected /\ auto_mode /\ (~override \/ force_analysis)
              THEN pending + 1
              ELSE pending]
    ELSE [current_image |-> image, pending_analyses |-> pending]

\* capture_timer times out: capture_frame().
CaptureTick(grab) ==
    /\ Widget /\ Environment
    /\ capturing
    /\ scene = "free" \/ cycles < CycleBudget
    /\ LET captured == capture_frame(current_image, pending_analyses, grab, FALSE,
                                     manual_override_active)
       IN  /\ captured.pending_analyses <= MaxPending
           /\ current_image' = captured.current_image
           /\ pending_analyses' = captured.pending_analyses
    /\ NoSend
    /\ UNCHANGED <<current_value, auto_mode, method_radio, last_recommendation,
                   engine_vars, override_vars, capturing, roi_selected,
                   last_delta, last_errors,
                   trace, cycles>>

\* override_timer times out: resume_auto_adjustment.  The override flag is
\* cleared before capture_frame(force_analysis=True) is called.
OverrideTimeout(grab) ==
    /\ Widget /\ Environment
    /\ QTimerDue(override_timer)
    /\ override_timer' = QTimerFire(override_timer)
    /\ IF auto_mode /\ manual_override_active
       THEN /\ manual_override_active' = FALSE
            /\ IF capturing /\ current_image # None
               THEN LET captured == capture_frame(current_image, pending_analyses,
                                                  grab, TRUE, FALSE)
                    IN  /\ captured.pending_analyses <= MaxPending
                        /\ current_image' = captured.current_image
                        /\ pending_analyses' = captured.pending_analyses
               ELSE UNCHANGED <<current_image, pending_analyses>>
       ELSE UNCHANGED <<manual_override_active, current_image, pending_analyses>>
    /\ NoSend
    /\ UNCHANGED <<current_value, auto_mode, method_radio, last_recommendation,
                   engine_vars, elapsed_since_manual, capturing, roi_selected,
                   last_delta, last_errors,
                   trace, cycles>>

\* One second passes.
Tick ==
    /\ Widget /\ Environment
    /\ override_timer # << >>
    /\ override_timer' = QTimerAdvance(override_timer)
    /\ elapsed_since_manual' = Min2(OVERRIDE_S, elapsed_since_manual + 1)
    /\ \/ override_timer' # override_timer
       \/ elapsed_since_manual' # elapsed_since_manual
    /\ NoSend
    /\ UNCHANGED <<current_value, auto_mode, method_radio, last_recommendation,
                   engine_vars, manual_override_active, camera_vars,
                   last_delta, last_errors,
                   trace, cycles>>
\* ------------------------------------------------------------------------
\* modules/analysis/analyzer.py: ImageAnalyzer, the engine of main.py.
\* The analyzer state is the record
\*   [prev_high_sum, stable_count, last_mean_values, last_adjustment_values].
\* ------------------------------------------------------------------------

\* The end of ImageAnalyzer._calculate_histogram_adjustment: the
\* adjustment is recorded and returned.
HistogramRecord(tracked, means, adjustment) ==
    [adjustment |-> adjustment,
     self |-> [tracked EXCEPT
                  !.last_mean_values = means,
                  !.last_adjustment_values =
                      AppendCapped(tracked.last_adjustment_values, adjustment)]]

\* CASE 0 of ImageAnalyzer._calculate_histogram_adjustment, the one case the
\* module implements.
HistogramCaseZero(norm_mean, high_sum, means, value) ==
    LET earlier == SubSeq(means, 1, Len(means) - 1)
        cliff_edge == /\ value <= 20 * U
                      /\ value >= 18 * U
                      /\ Len(means) >= 2
                      /\ \E i \in 1..Len(earlier) : earlier[i] > 30 * U
    IN  IF norm_mean < 2 * U \/ high_sum < Dec(1, 100)
        THEN IF cliff_edge THEN Dec(3, 10)
             ELSE IF norm_mean < 1 * U THEN 3 * U
             ELSE IF norm_mean < 2 * U THEN 2 * U
             ELSE 1 * U
        ELSE 0

HistogramTracked(tracked, norm_mean, high_sum, means, value) ==
    HistogramRecord(tracked, means, HistogramCaseZero(norm_mean, high_sum, means, value))

\* ImageAnalyzer._calculate_histogram_adjustment, with self.current_value
\* as stored by calculate_adjustment just before.
_calculate_histogram_adjustment(self, results, value) ==
    LET high_sum == Get(results, "high_intensity_sum", 0)
        norm_mean == NormMean(Get(results, "weighted_mean", 0))
    IN  HistogramTracked(HistogramStability(self, high_sum), norm_mean, high_sum,
                         AppendCapped(self.last_mean_values, norm_mean), value)

\* ImageAnalyzer._calculate_pixel_count_adjustment
_calculate_pixel_count_adjustment(self, results) ==
    LET saturation_percentage == Get(results, "saturation_percentage", 0)
    IN  [adjustment |->
             IF saturation_percentage < Dec(1, 10) THEN 1 * U
             ELSE IF saturation_percentage > 5 * U THEN -(1 * U)
             ELSE IF saturation_percentage > 2 * U THEN -Dec(5, 10)
             ELSE IF saturation_percentage < Dec(5, 10) THEN Dec(5, 10)
             ELSE 0,
         self |-> self]

\* ImageAnalyzer._calculate_contrast_adjustment
_calculate_contrast_adjustment(self, results) ==
    LET contrast == Get(results, "global_contrast", 0)
    IN  [adjustment |->
             IF contrast < Dec(2, 10) THEN 1 * U
             ELSE IF contrast > Dec(5, 10) THEN -(1 * U)
             ELSE IF contrast > Dec(4, 10) THEN -Dec(3, 10)
             ELSE IF contrast < Dec(3, 10) THEN Dec(3, 10)
             ELSE 0,
         self |-> self]

\* ImageAnalyzer.calculate_adjustment(results, method, current_value)
calculate_adjustment(self, results, method, value) ==
    IF method = "histogram" THEN _calculate_histogram_adjustment(self, results, value)
    ELSE IF method = "pixel_count" THEN _calculate_pixel_count_adjustment(self, results)
    ELSE IF method = "contrast" THEN _calculate_contrast_adjustment(self, results)
    ELSE [adjustment |-> 0, self |-> self]


\* ------------------------------------------------------------------------
\* main.py: handlers
\* ------------------------------------------------------------------------

\* Positions of main.py's slider, in tenths of a percent (0-1000).
MainSliderValues == {0, 185, 200, 1000}

\* The end of main.py's generate_analysis: in automatic mode an adjustment
\* above 0.01 is applied and sent.
MainApply(image, step) ==
    /\ analyzer' = step.self
    /\ last_delta' = << step.adjustment >>
    /\ last_errors' = << >>
    /\ IF is_auto_mode /\ AbsV(step.adjustment) > Dec(1, 100)
       THEN \E new_value \in {Max2(0, Min2(100 * U, m_current_value + step.adjustment))} :
                /\ m_current_value' = new_value
                /\ MSend(new_value)
       ELSE MNoSend /\ UNCHANGED m_current_value
    /\ Record(image, step.adjustment, m_current_value')

\* LaserSpeckleUI.generate_analysis of main.py on the image held.
m_generate_analysis(image) ==
    /\ cycles < CycleBudget
    /\ cycles' = cycles + 1
    /\ \E step \in {calculate_adjustment(analyzer, Report(image, current_method),
                                         current_method, m_current_value)} :
           MainApply(image, step)

\* The operator moves the slider of main.py: update_laser_intensity(value).
\* set_auto_mode disables the slider, so it moves in manual mode only.
MainSliderMove(value) ==
    /\ Main /\ Operator
    /\ ~is_auto_mode
    /\ (value * U) \div 10 # m_current_value
    /\ m_current_value' = (value * U) \div 10
    /\ MSend((value * U) \div 10)
    /\ UNCHANGED <<is_auto_mode, m_capturing, m_current_image, current_method,
                   analyzer, last_delta, last_errors,
                   trace, cycles>>

\* handle_mode_change with the auto radio button checked: set_auto_mode.
MainSetAutoMode ==
    /\ Main /\ Operator
    /\ ~is_auto_mode
    /\ is_auto_mode' = TRUE
    /\ MNoSend
    /\ UNCHANGED <<m_current_value, m_capturing, m_current_image, current_method,
                   analyzer, last_delta, last_errors,
                   trace, cycles>>

\* handle_mode_change with the manual radio button checked: set_manual_mode.
MainSetManualMode ==
    /\ Main /\ Operator
    /\ is_auto_mode
    /\ is_auto_mode' = FALSE
    /\ MNoSend
    /\ UNCHANGED <<m_current_value, m_capturing, m_current_image, current_method,
                   analyzer, last_delta, last_errors,
                   trace, cycles>>

\* update_analysis_method
MainSelectMethod(method) ==
    /\ Main /\ Operator
    /\ method # current_method
    /\ current_method' = method
    /\ MNoSend
    /\ UNCHANGED <<m_current_value, is_auto_mode, m_capturing, m_current_image,
                   analyzer, last_delta, last_errors,
                   trace, cycles>>

\* load_image: the file is stored and analysed at once.
MainLoadImage(frame) ==
    /\ Main /\ Operator
    /\ m_current_image' = Some(frame)
    /\ m_generate_analysis(frame)
    /\ UNCHANGED <<is_auto_mode, m_capturing, current_method>>

\* The Analyze button, update_roi and reset_roi: generate_analysis on the
\* image held.
MainAnalyze ==
    /\ Main /\ Operator
    /\ m_current_image # None
    /\ m_generate_analysis(m_current_image[1])
    /\ UNCHANGED <<is_auto_mode, m_capturing, m_current_image, current_method>>

\* start_capture with a camera attached.
MainStartCapture ==
    /\ Main /\ Operator
    /\ ~m_capturing
    /\ m_capturing' = TRUE
    /\ MNoSend
    /\ UNCHANGED <<m_current_value, is_auto_mode, m_current_image, current_method,
                   analyzer, last_delta, last_errors,
                   trace, cycles>>

\* stop_capture
MainStopCapture ==
    /\ Main /\ Operator
    /\ m_capturing
    /\ m_capturing' = FALSE
    /\ MNoSend
    /\ UNCHANGED <<m_current_value, is_auto_mode, m_current_image, current_method,
                   analyzer, last_delta, last_errors,
                   trace, cycles>>

\* capture_timer times out in main.py: capture_frame, which analyses the
\* frame synchronously in auto mode.  main.py hands the whole frame to the
\* estimator, so no region of size zero is met.
MainCaptureTick(frame) ==
    /\ Main /\ Environment
    /\ m_capturing
    /\ frame \notin GrabFailures \cup {"void"}
    /\ m_current_image' = Some(frame)
    /\ IF is_auto_mode
       THEN m_generate_analysis(frame)
       ELSE /\ MNoSend
            /\ UNCHANGED <<m_current_value, analyzer, last_delta, last_errors,
                   trace, cycles>>
    /\ UNCHANGED <<is_auto_mode, m_capturing, current_method>>

\* ------------------------------------------------------------------------
\* The estimators and the decision engines on the bench: one image with its
\* weight mask is put to the histogram and the pixel-count estimator, and
\* each report to the decision engine of the application, starting from the
\* engine state after construction.
\* ------------------------------------------------------------------------

\* Pixel values of the images on the bench.
PixelValues == {0, 30, 120, 240, 255}

\* Lengths of the runs of an image on the bench.
RunCounts == {1, 40, FramePixels}

\* Weights of the pixels of a run: 0, 0.5 and 1.0.
RunWeights == {0, 1, WeightOne}

Runs == [value : PixelValues, count : RunCounts, weight : RunWeights]

\* Images of at most two runs; the empty one is a region of size zero.
BenchImages == {<< >>} \cup {<<r>> : r \in Runs} \cup {<<r, s>> : r \in Runs, s \in Runs}

\* The estimator of a method called on an image.
CallEstimator(image, method) ==
    IF method = "histogram"
    THEN analyze_saturation_by_histogram(image)
    ELSE analyze_saturation_by_pixel_count(image)

\* The estimator raised: the error is logged and no decision is made.
BenchFailure(method) ==
    /\ last_errors' = << method >>
    /\ last_delta' = << >>
    /\ Record(method, 0, 0)
    /\ UNCHANGED <<engine_vars, analyzer>>

\* The estimator block of updated_widget.py's generate_analysis on a report.
BenchWidget(method, run) ==
    /\ prev_high_sum' = run.self.prev_high_sum
    /\ stable_count' = run.self.stable_count
    /\ last_mean_values' = run.self.last_mean_values
    /\ last_adjustment_values' = run.self.last_adjustment_values
    /\ last_delta' = run.adjustments
    /\ last_errors' = run.errors
    /\ Record(method, run.adjustments[1], current_value * U)
    /\ UNCHANGED analyzer

\* ImageAnalyzer.calculate_adjustment on a report.
BenchAnalyzer(method, step) ==
    /\ analyzer' = step.self
    /\ last_delta' = << step.adjustment >>
    /\ last_errors' = << >>
    /\ Record(method, step.adjustment, m_current_value)
    /\ UNCHANGED engine_vars

BenchDecide(method, call) ==
    IF call.raised
    THEN BenchFailure(method)
    ELSE IF app = "updated_widget"
    THEN BenchWidget(method,
                     Block([adjustments |-> << >>, errors |-> << >>, self |-> Self],
                           method, call))
    ELSE BenchAnalyzer(method,
                       calculate_adjustment(analyzer, call.results, method,
                                            m_current_value))

\* The image on the bench is put to the estimator of a method and the
\* report to the decision engine.
PutToEstimator(method) ==
    /\ scene = "bench"
    /\ cycles < CycleBudget
    /\ cycles' = cycles + 1
    /\ \E call \in {CallEstimator(specimen, method)} :
           /\ verdict' = Some([method |-> method, call |-> call])
           /\ BenchDecide(method, call)
    /\ UNCHANGED <<app, scene, specimen, weight_field, inputs,
                   current_value, auto_mode, method_radio, last_recommendation,
                   override_vars, camera_vars, link_vars,
                   m_current_value, is_auto_mode, m_capturing, m_current_image,
                   current_method, m_serial_port, m_dispatch>>

\* ------------------------------------------------------------------------
\* Radial weight masks.  A weight exp(-e / (2 * sigma**2)) is written as its
\* exponent e >= 0 in units of 1 / (2 * sigma**2): the weight is 1.0 exactly
\* when e = 0 and lies strictly between 0 and 1 when e > 0.  A weight of 0.0
\* and a weight that is not a number have a value of their own.
\* ------------------------------------------------------------------------

ZeroWeight == -1

NanWeight == -2

\* np.exp(-x) is 0.0 for x above 745.14 (in hundredths).
ExpUnderflow == 74514

\* np.exp(-squared / (2 * sigma**2)); with sigma = 0 the quotient is 0/0 at
\* squared = 0 and minus infinity elsewhere.
ExpNeg(squared, sigma) ==
    IF sigma = 0
    THEN IF squared = 0 THEN NanWeight ELSE ZeroWeight
    ELSE IF squared * 100 > ExpUnderflow * 2 * sigma * sigma
    THEN ZeroWeight
    ELSE squared

\* The pixels of an image of a shape, as (y, x).
Grid(shape) == (0..(shape[1] - 1)) \X (0..(shape[2] - 1))

\* center=None: the middle of the image.
CenterOf(shape, center) ==
    IF center = None THEN << shape[1] \div 2, shape[2] \div 2 >> ELSE center[1]

\* sigma=None: the shorter side divided by the divisor of the builder.
SigmaOf(shape, sigma, divisor) ==
    IF sigma = None THEN Min2(shape[1], shape[2]) \div divisor ELSE sigma[1]

squared_dist(pixel, center) ==
    (pixel[1] - center[1]) * (pixel[1] - center[1])
        + (pixel[2] - center[2]) * (pixel[2] - center[2])

\* updated_widget.create_radial_weight_mask past its defaults: a flat top of
\* weight 1.0 and a Gaussian that starts at its rim, or a plain Gaussian.
WidgetMask(shape, center, sigma, flat_top_radius) ==
    IF flat_top_radius # None /\ flat_top_radius[1] > 0
    THEN [pixel \in Grid(shape) |->
             IF squared_dist(pixel, center) <= flat_top_radius[1] * flat_top_radius[1]
             THEN 0
             ELSE ExpNeg(squared_dist(pixel, center)
                             - flat_top_radius[1] * flat_top_radius[1], sigma)]
    ELSE [pixel \in Grid(shape) |-> ExpNeg(squared_dist(pixel, center), sigma)]

widget_create_radial_weight_mask(shape, center, sigma, flat_top_radius) ==
    WidgetMask(shape, CenterOf(shape, center), SigmaOf(shape, sigma, 2),
               flat_top_radius)

\* weight_mask.max(): not a number if any weight is.
MaxWeight(mask) ==
    LET weights == {mask[pixel] : pixel \in DOMAIN mask}
    IN  IF NanWeight \in weights THEN NanWeight
        ELSE IF weights = {ZeroWeight} THEN ZeroWeight
        ELSE CHOOSE e \in weights \ {ZeroWeight} :
                 \A other \in weights \ {ZeroWeight} : e <= other

\* weight / maximum, the maximum being the largest weight of the mask.
DivideWeight(weight, maximum) ==
    IF weight = NanWeight \/ maximum \in {NanWeight, ZeroWeight} THEN NanWeight
    ELSE IF weight = ZeroWeight THEN ZeroWeight
    ELSE weight - maximum

Normalized(mask, maximum) ==
    [pixel \in DOMAIN mask |-> DivideWeight(mask[pixel], maximum)]

\* The Gaussian of image_utils.create_radial_weight_mask with its flat top.
UtilsMask(shape, center, sigma, flat_top_radius) ==
    [pixel \in Grid(shape) |->
        IF /\ flat_top_radius # None
           /\ squared_dist(pixel, center) <= flat_top_radius[1] * flat_top_radius[1]
        THEN 0
        ELSE ExpNeg(squared_dist(pixel, center), sigma)]

utils_create_radial_weight_mask(shape, center, sigma, flat_top_radius) ==
    LET weight_mask == UtilsMask(shape, CenterOf(shape, center),
                                 SigmaOf(shape, sigma, 6), flat_top_radius)
    IN  Normalized(weight_mask, MaxWeight(weight_mask))

\* Sides of the images, coordinates of the centers, sigmas and flat top radii
\* the builders are called with.
Sides == {1, 2, 6}

CenterCoordinates == {-1, 0, 1, 40}

Sigmas == {0, 1, 2}

FlatTopRadii == {0, 1, 3}

Optional(values) == {None} \cup {Some(v) : v \in values}

\* The arguments of a call of a builder, its mask not built yet.
MaskCalls ==
    [shape : Sides \X Sides,
     center : Optional(CenterCoordinates \X CenterCoordinates),
     sigma : Optional(Sigmas),
     flat_top_radius : Optional(FlatTopRadii),
     mask : {None}]

\* The builder of the application on the arguments of a call.
create_radial_weight_mask(call) ==
    IF app = "updated_widget"
    THEN widget_create_radial_weight_mask(call.shape, call.center, call.sigma,
                                          call.flat_top_radius)
    ELSE utils_create_radial_weight_mask(call.shape, call.center, call.sigma,
                                         call.flat_top_radius)

\* The mask of the call on the bench is built.
BuildMask ==
    /\ scene = "bench"
    /\ weight_field # None
    /\ weight_field[1].mask = None
    /\ weight_field' =
           Some([weight_field[1] EXCEPT !.mask = create_radial_weight_mask(weight_field[1])])
    /\ UNCHANGED <<app, scene, specimen, verdict, inputs, cycles, trace,
                   last_delta, last_errors, widget_vars, main_vars>>

\* ------------------------------------------------------------------------
\* The two applications after construction, and their steps
\* ------------------------------------------------------------------------

Apps == {"updated_widget", "main"}

\* Radio buttons of the widget's method group.
Radios == {"histogram", "pixel_count", "contrast", "all"}

\* ImageAnalyzer.__init__
AnalyzerInit == [prev_high_sum |-> None, stable_count |-> 0,
                 last_mean_values |-> << >>, last_adjustment_values |-> << >>]

\* LaserSpeckleUI.__init__ of updated_widget.py and of main.py; the serial
\* port is open or not, as setup_serial_connection / connect found it.
Fresh ==
    /\ app \in Apps
    /\ serial_port \in (IF app = "updated_widget" THEN BOOLEAN ELSE {FALSE})
    /\ m_serial_port \in (IF app = "main" THEN BOOLEAN ELSE {FALSE})
    /\ current_value = 20
    /\ auto_mode = TRUE
    /\ manual_override_active = FALSE
    /\ override_timer = << >>
    /\ capturing = FALSE
    /\ roi_selected = FALSE
    /\ current_image = None
    /\ pending_analyses = 0
    /\ method_radio = "histogram"
    /\ last_recommendation = None
    /\ prev_high_sum = None
    /\ stable_count = 0
    /\ last_mean_values = << >>
    /\ last_adjustment_values = << >>
    /\ dispatch = None
    /\ m_current_value = 20 * U
    /\ is_auto_mode = FALSE
    /\ m_capturing = FALSE
    /\ m_current_image = None
    /\ current_method = "histogram"
    /\ analyzer = AnalyzerInit
    /\ m_dispatch = None
    /\ elapsed_since_manual = OVERRIDE_S
    /\ last_delta = << >>
    /\ last_errors = << >>
    /\ trace = << >>
    /\ cycles = 0
    /\ inputs = 0

\* Nothing is on the bench.
Constructed ==
    /\ Fresh
    /\ specimen = << >>
    /\ verdict = None
    /\ weight_field = None

Init == scene = "free" /\ Constructed

WidgetNext ==
    \/ \E value \in SliderValues : SliderMove(value)
    \/ SetAutoMode
    \/ SetManualMode
    \/ \E radio \in Radios : SelectMethod(radio)
    \/ UpdateRoi
    \/ ResetRoi
    \/ \E frame \in FileFrames : LoadImage(frame)
    \/ AnalyzeButton
    \/ DeferredAnalysis
    \/ StartCapture
    \/ StopCapture
    \/ \E grab \in GrabResults : CaptureTick(grab)
    \/ \E grab \in GrabResults : OverrideTimeout(grab)
    \/ Tick

MainNext ==
    \/ \E value \in MainSliderValues : MainSliderMove(value)
    \/ MainSetAutoMode
    \/ MainSetManualMode
    \/ \E method \in {"histogram", "pixel_count", "contrast"} : MainSelectMethod(method)
    \/ \E frame \in FileFrames : MainLoadImage(frame)
    \/ MainAnalyze
    \/ MainStartCapture
    \/ MainStopCapture
    \/ \E frame \in GrabResults : MainCaptureTick(frame)

Next == WidgetNext \/ MainNext

Spec == Init /\ [][Next]_vars

\* ------------------------------------------------------------------------
\* The running automatic loop.  The operator has set the current, chosen
\* the method, drawn the region of interest, selected automatic mode and
\* started the capture, any override has expired, and no frame has been
\* analysed yet; from there on only the timers act.  The survey runs with
\* no actuator attached.
\* ------------------------------------------------------------------------

\* Percentages the loop is started at.
StartValues == {0, 20, 50, 100}

\* Percentages the endless loop is started at: all outside the critical
\* region.
EndlessStart == (1..100) \ (CRITICAL_LOW..CRITICAL_HIGH)

Running(scenes) ==
    /\ scene \in scenes
    /\ app \in Apps
    /\ serial_port = (app = "updated_widget" /\ scene # "survey")
    /\ m_serial_port = (app = "main" /\ scene # "survey")
    /\ current_value \in (IF scene = "endless" THEN EndlessStart
                          ELSE IF app = "updated_widget" THEN StartValues
                          ELSE {20})
    /\ auto_mode = TRUE
    /\ manual_override_active = FALSE
    /\ override_timer = << >>
    /\ capturing = (app = "updated_widget")
    /\ roi_selected = (app = "updated_widget")
    /\ current_image = None
    /\ pending_analyses = 0
    /\ method_radio \in (IF app = "updated_widget" THEN Radios ELSE {"histogram"})
    /\ last_recommendation = None
    /\ prev_high_sum = None
    /\ stable_count = 0
    /\ last_mean_values = << >>
    /\ last_adjustment_values = << >>
    /\ dispatch = None
    /\ m_current_value \in (IF app = "main" THEN {v * U : v \in StartValues}
                                            ELSE {20 * U})
    /\ is_auto_mode = (app = "main")
    /\ m_capturing = (app = "main")
    /\ m_current_image = None
    /\ current_method \in (IF app = "main" THEN {"histogram", "pixel_count", "contrast"}
                                           ELSE {"histogram"})
    /\ analyzer = AnalyzerInit
    /\ m_dispatch = None
    /\ elapsed_since_manual = OVERRIDE_S
    /\ last_delta = << >>
    /\ last_errors = << >>
    /\ specimen = << >>
    /\ verdict = None
    /\ weight_field = None
    /\ trace = << >>
    /\ cycles = 0
    /\ inputs = 0

LoopNext ==
    \/ \E grab \in GrabResults : CaptureTick(grab)
    \/ DeferredAnalysis
    \/ \E grab \in GrabResults : OverrideTimeout(grab)
    \/ Tick
    \/ \E frame \in GrabResults : MainCaptureTick(frame)

\* The loop before a camera whose frames alternate, or stay the same.
PatternInit == Running({"alternating", "steady"})

SpecPattern == PatternInit /\ [][LoopNext]_vars

\* The loop before a camera that delivers any frame of the survey.
EngineInit == Running({"survey"})

SpecEngine == EngineInit /\ [][LoopNext]_vars

\* The bench: any image of the bounded set, the engines as constructed.
BenchInit ==
    /\ scene = "bench"
    /\ Fresh
    /\ specimen \in BenchImages
    /\ verdict = None
    /\ weight_field = None

BenchNext ==
    \E method \in {"histogram", "pixel_count"} : PutToEstimator(method)

SpecBench == BenchInit /\ [][BenchNext]_vars

\* The bench of the weight masks: any call of the bounded set.
MaskInit ==
    /\ scene = "bench"
    /\ Fresh
    /\ specimen = << >>
    /\ verdict = None
    /\ weight_field \in {Some(call) : call \in MaskCalls}

MaskNext == BuildMask

SpecMask == MaskInit /\ [][MaskNext]_vars

\* The loop before a camera whose every frame is saturated, the histogram
\* method selected, for any number of cycles.
EndlessInit ==
    /\ Running({"endless"})
    /\ app = "updated_widget"
    /\ method_radio = "histogram"

EndlessNext ==
    \/ \E grab \in GrabResults : CaptureTick(grab)
    \/ DeferredAnalysis

\* QTimer.singleShot(10, generate_analysis) in capture_frame: one deferred call
\* leaves the event loop's queue. In the endless loop every pending call can
\* run (a frame is held whenever one is pending), so this is the step
\* DeferredAnalysis takes on the counter.
AnalysisDue ==
    /\ pending_analyses > 0
    /\ pending_analyses' = pending_analyses - 1

\* The capture timer keeps firing and the event loop runs every deferred
\* call.
SpecEndless ==
    /\ EndlessInit
    /\ [][EndlessNext]_vars
    /\ WF_vars(\E grab \in GrabResults : CaptureTick(grab))
    /\ WF_pending_analyses(AnalysisDue)

\* ------------------------------------------------------------------------
\* Properties
\* ------------------------------------------------------------------------

\* C1: the actuator percentage, and every value handed to the actuator link,
\* lies in 0..100 in every reachable state of either application.
C1_PercentageInRange ==
    /\ current_value \in 0..100
    /\ dispatch # None => dispatch[1].value \in 0..100
    /\ 0 <= m_current_value /\ m_current_value <= 100 * U
    /\ m_dispatch # None => (0 <= m_dispatch[1].value /\ m_dispatch[1].value <= 100 * U)

\* An automatic step at the upper end: in automatic mode without override a
\* positive recommendation was applied at 100 and 100 was sent.
C1_Witness ==
    /\ app = "updated_widget"
    /\ auto_mode /\ ~manual_override_active
    /\ last_recommendation # None /\ last_recommendation[1] > 0
    /\ current_value = 100
    /\ dispatch # None /\ dispatch[1].value = 100

\* C2: whatever reports the estimators give and whatever state the engine
\* has reached, every per-estimator delta the decision engine returns lies
\* in [-1.0, 3.0] and the target percentage lies in [0, 100].
C2_DeltaInRange ==
    /\ \A i \in 1..Len(last_delta) :
           -(1 * U) <= last_delta[i] /\ last_delta[i] <= 3 * U
    /\ 0 <= current_value /\ current_value <= 100
    /\ 0 <= m_current_value /\ m_current_value <= 100 * U

\* Both ends in one analysis of the survey, with full histories behind it:
\* one estimator returned +3.0 and another a negative delta.
C2_Witness ==
    /\ scene = "survey"
    /\ app = "updated_widget"
    /\ Len(last_adjustment_values) = HISTORY_CAP
    /\ Len(last_mean_values) = HISTORY_CAP
    /\ \E i \in 1..Len(last_delta) : last_delta[i] = 3 * U
    /\ \E i \in 1..Len(last_delta) : last_delta[i] < 0

\* C3: before a camera whose frames alternate between very dark and very
\* bright on every analysis cycle, the magnitude of the applied delta
\* strictly decreases from cycle to cycle once three alternations have been
\* seen (or the delta has reached zero), and from the tenth cycle on the
\* target percentage stays within one point of a midpoint.
C3_AlternationDamped ==
    scene = "alternating" =>
        /\ \A k \in 5..Len(trace) :
               \/ trace[k].delta = 0
               \/ AbsV(trace[k].delta) < AbsV(trace[k - 1].delta)
        /\ \A j \in 10..Len(trace) : \A k \in 10..Len(trace) :
               AbsV(trace[j].target - trace[k].target) <= 2 * U

\* A step from old to new of a rolling history: up to three entries were
\* appended, and the entries that remain are the newest of the old ones in
\* their old order.
FifoStep(old, new) ==
    \/ new = old
    \/ \E k \in 1..Len(Methods) :
           /\ Len(new) = Min2(HISTORY_CAP, Len(old) + k)
           /\ \A i \in 1..(Len(new) - k) :
                  new[i] = old[Len(old) - (Len(new) - k) + i]

\* C4: the mean history and the adjustment history of either engine never
\* hold more than five entries, and every append to a full history evicts
\* the oldest entries and keeps the others in order.
C4_HistoryFifo ==
    /\ [](/\ Len(last_mean_values) <= 5
          /\ Len(last_adjustment_values) <= 5
          /\ Len(analyzer.last_mean_values) <= 5
          /\ Len(analyzer.last_adjustment_values) <= 5)
    /\ [][/\ FifoStep(last_mean_values, last_mean_values')
          /\ FifoStep(last_adjustment_values, last_adjustment_values')
          /\ FifoStep(analyzer.last_mean_values, analyzer'.last_mean_values)
          /\ FifoStep(analyzer.last_adjustment_values,
                      analyzer'.last_adjustment_values)]_vars

\* Both histories of the widget were full and took further entries that
\* differ from the ones they hold.
C4_Witness ==
    /\ app = "updated_widget"
    /\ method_radio = "pixel_count"
    /\ cycles >= 7
    /\ Len(last_mean_values) = 5
    /\ Len(last_adjustment_values) = 5
    /\ last_mean_values[1] # last_mean_values[2]
    /\ last_adjustment_values[4] # last_adjustment_values[5]

\* C5: every operator toggle into automatic mode leaves the mean history,
\* the adjustment history, the stable-reading counter and the previous
\* reading of the engine empty.
C5_AutoEntryResets ==
    [][/\ (~auto_mode /\ auto_mode') =>
              /\ last_mean_values' = << >>
              /\ last_adjustment_values' = << >>
              /\ stable_count' = 0
              /\ prev_high_sum' = None
       /\ (~is_auto_mode /\ is_auto_mode') => analyzer' = AnalyzerInit]_vars

\* C6: while the override set by a slider move in automatic mode has not
\* run out, a step changes the actuator percentage or sends a value to the
\* actuator only if it is a slider move.
C6_OverrideHoldsOff ==
    [][(/\ manual_override_active
        /\ elapsed_since_manual < OVERRIDE_S
        /\ (current_value' # current_value \/ dispatch' # None))
           => \E value \in SliderValues : SliderMove(value)]_vars

C9_TimerRestarted ==
    /\ [](Len(override_timer) <= 1)
    /\ [][(manual_override_active /\ ~manual_override_active') =>
              elapsed_since_manual >= OVERRIDE_S]_vars

\* The operator's second input was a slider move to 100 in automatic mode:
\* the override is on and a single expiry is pending, the full duration
\* away.
C9_Witness ==
    /\ app = "updated_widget"
    /\ auto_mode /\ manual_override_active
    /\ inputs = 2
    /\ cycles = 0
    /\ current_image = None
    /\ current_value = 100
    /\ dispatch # None /\ dispatch[1].value = 100
    /\ elapsed_since_manual = 0
    /\ override_timer = << OVERRIDE_S >>

\* C10: with several estimators enabled, on a frame that every estimator
\* reports on, the fused delta is the arithmetic mean of the per-estimator
\* deltas, and each per-estimator delta is the one its estimator returns
\* when run alone on the frame from the state the engine had before the
\* frame.
C10_FusedIndependentMean ==
    [][(/\ app = "updated_widget"
        /\ cycles' = cycles + 1
        /\ ~CriticalOscillation
        /\ method_radio = "all"
        /\ current_image # None
        /\ current_image[1] \in Frames)
           => /\ last_recommendation' =
                     Some(SumSeq(last_delta') \div Len(last_delta'))
              /\ \A i \in 1..Len(Methods) :
                     last_delta'[i] =
                         LimitFive(calculate_current_adjustment(
                                       Self, Report(current_image[1], Methods[i]),
                                       Methods[i]).adjustment)]_vars

\* C11: in an analysis cycle run in automatic mode without override, a value
\* is handed to the actuator link if and only if the clamped target differs
\* from the percentage before the cycle; a cycle whose target equals the
\* current percentage, at the bounds 0 and 100 too, sends nothing.
C11_DispatchIffChanged ==
    [][/\ (app = "updated_widget" /\ cycles' = cycles + 1
           /\ auto_mode /\ ~manual_override_active)
          => (dispatch' # None <=> current_value' # current_value)
       /\ (app = "main" /\ cycles' = cycles + 1 /\ is_auto_mode)
          => (m_dispatch' # None <=> m_current_value' # m_current_value)]_vars

\* C12: at most one analysis cycle is outstanding at any time: a capture
\* tick that comes while the analysis scheduled by an earlier tick has not
\* run yet schedules no further analysis.
C12_OneAnalysisOutstanding == pending_analyses <= 1

\* C13: once stop_capture has returned, no step other than an operator
\* input changes the actuator percentage or sends to the actuator on the
\* strength of a frame the camera delivered before the stop; an analysis
\* that was already scheduled when the stop came is not applied.
C13_StopCancelsInFlight ==
    [][(/\ app = "updated_widget"
        /\ ~capturing
        /\ inputs' = inputs
        /\ current_image # None
        /\ current_image[1] \in CameraFrames)
       => (current_value' = current_value /\ dispatch' = None)]_vars

\* The estimators of the checked radio button that raise on a frame.
Failing(frame, radio) ==
    LET raises(method) == Estimate(frame, method).raised
    IN  SelectSeq(Selected(radio), raises)

\* C14: when an estimator fails on the frame of an analysis cycle, the
\* failure is logged, no adjustment of that estimator is collected or
\* applied for that frame (nothing at all is applied when every selected
\* estimator failed), and the capture loop stays as it was: capturing, the
\* mode and the region of interest are untouched, so the next tick is
\* handled as any other.
C14_FailureContained ==
    [][(/\ app = "updated_widget"
        /\ cycles' = cycles + 1
        /\ ~CriticalOscillation
        /\ Failing(current_image[1], method_radio) # << >>)
       => /\ last_errors' = Failing(current_image[1], method_radio)
          /\ Len(last_delta') + Len(last_errors') = Len(Selected(method_radio))
          /\ (last_delta' = << >>
              => /\ current_value' = current_value
                 /\ dispatch' = None
                 /\ last_recommendation' = last_recommendation
                 /\ engine_vars' = engine_vars)
          /\ capturing' = capturing
          /\ auto_mode' = auto_mode
          /\ roi_selected' = roi_selected]_vars

\* After an analysis in which the histogram and the contrast estimator
\* failed and the pixel-count estimator went through, capture is still
\* running and the next tick has delivered a dark frame and scheduled its
\* analysis.
C14_Witness ==
    /\ app = "updated_widget"
    /\ capturing
    /\ last_errors = << "histogram", "contrast" >>
    /\ Len(last_delta) = 1
    /\ current_image = Some("dark")
    /\ pending_analyses > 0

\* C15: when a dispatch loses the transport and the one reconnect attempt
\* fails, the application goes on in manual mode only: automatic mode is
\* off after that step, so that no automatic adjustment is applied until
\* the operator selects automatic mode again.
C15_LostLinkDisablesAuto ==
    [][/\ (serial_port /\ ~serial_port') => ~auto_mode'
       /\ (m_serial_port /\ ~m_serial_port') => ~is_auto_mode']_vars

\* An image without pixels, or one whose weights sum to zero.
Degenerate(image) == TotalWeight(image) = 0

\* C16: an estimator put to an image without pixels or with weights that sum
\* to zero ends with an explicit error and returns no report.
C16_DegenerateIsDataError ==
    (scene = "bench" /\ verdict # None /\ Degenerate(specimen))
        => verdict[1].call.raised

\* The first steps on the bench were histogram steps of the widget's engine
\* on reports of the given weighted mean.
HistogramSteps(steps, mean) ==
    /\ scene = "bench" /\ app = "updated_widget"
    /\ cycles = steps /\ Len(trace) = steps
    /\ \A i \in 1..steps : trace[i].frame = "histogram"
    /\ verdict # None /\ ~verdict[1].call.raised
    /\ verdict[1].call.results.weighted_mean = mean * U

\* C17: from a fresh engine, after two histogram steps on identical reports of
\* mean intensity 120 the stable-reading counter is 2 and the second delta is
\* strictly smaller in magnitude than the first.
C17_SecondStepDamped ==
    HistogramSteps(2, 120)
        => /\ stable_count = 2
           /\ AbsV(trace[2].delta) < AbsV(trace[1].delta)

\* Every pixel of the image has the given value.
Uniform(image, value) ==
    /\ image # << >>
    /\ \A i \in 1..Len(image) : image[i].value = value

\* The first step on the bench put a uniform image of positive weight to the
\* estimator of the method.
FirstStepOnUniform(method, value) ==
    /\ scene = "bench" /\ cycles = 1
    /\ verdict # None /\ verdict[1].method = method
    /\ Uniform(specimen, value) /\ ~Degenerate(specimen)

\* C18: on a uniform image of value 30 the histogram estimator reports no
\* saturation and an empty highest bin, and a fresh decision engine answers
\* with a delta of at least +1.0.
C18_UniformDarkRaises ==
    FirstStepOnUniform("histogram", 30)
        => /\ ~verdict[1].call.raised
           /\ ~verdict[1].call.results.is_saturated
           /\ verdict[1].call.results.highest_bin_percentage = 0
           /\ Len(last_delta) = 1
           /\ last_delta[1] >= Dec(1, 1)

C18_Witness ==
    /\ FirstStepOnUniform("histogram", 30)
    /\ app = "updated_widget"
    /\ specimen = << [value |-> 30, count |-> FramePixels, weight |-> WeightOne] >>
    /\ last_delta = << Dec(1, 1) >>
    /\ stable_count = 0 /\ prev_high_sum = Some(0)

\* The last step on the bench put a uniform image of positive weight to the
\* estimator of the method.
LastStepOnUniform(method, value) ==
    /\ scene = "bench" /\ cycles > 0
    /\ verdict # None /\ verdict[1].method = method
    /\ Uniform(specimen, value) /\ ~Degenerate(specimen)

\* C19: on a uniform image of value 255 the pixel-count estimator reports
\* saturation with a saturated percentage of 100, and the delta of the
\* widget's decision engine is negative and not below the decrease limit
\* of -0.5.
C19_UniformBrightLowers ==
    LastStepOnUniform("pixel_count", 255)
        => /\ ~verdict[1].call.raised
           /\ verdict[1].call.results.is_saturated
           /\ verdict[1].call.results.saturated_percentage = 100 * U
           /\ app = "updated_widget"
                  => /\ Len(last_delta) = 1
                     /\ last_delta[1] < 0
                     /\ last_delta[1] >= -Dec(5, 10)

C19_Witness ==
    /\ LastStepOnUniform("pixel_count", 255)
    /\ app = "updated_widget"
    /\ specimen = << [value |-> 255, count |-> FramePixels, weight |-> WeightOne] >>
    /\ verdict[1].call.results.saturated_pixels = FramePixels
    /\ last_delta = << -Dec(5, 10) >>

\* The mask of the call on the bench has been built.
MaskBuilt == weight_field # None /\ weight_field[1].mask # None

\* C20: every weight of a mask built by a radial weight-mask builder lies in
\* [0, 1], and the largest weight of the mask is 1.0.
C20_MaskNormalized ==
    MaskBuilt
        => /\ \A pixel \in DOMAIN weight_field[1].mask :
                  weight_field[1].mask[pixel] # NanWeight
           /\ \E pixel \in DOMAIN weight_field[1].mask :
                  weight_field[1].mask[pixel] = 0

\* C21: while the mode is manual, an analysis changes neither the actuator
\* percentage nor sends anything to the actuator, and the percentage changes
\* only by a move of the slider.
C21_ManualAnalysisInert ==
    [][/\ (app = "updated_widget" /\ ~auto_mode /\ ~auto_mode')
           => /\ cycles' = cycles + 1
                  => (current_value' = current_value /\ dispatch' = None)
              /\ current_value' # current_value
                  => \E value \in SliderValues : SliderMove(value)
       /\ (app = "main" /\ ~is_auto_mode /\ ~is_auto_mode')
           => /\ cycles' = cycles + 1
                  => (m_current_value' = m_current_value /\ m_dispatch' = None)
              /\ m_current_value' # m_current_value
                  => \E value \in MainSliderValues : MainSliderMove(value)]_vars

\* An analysis has run in manual mode on a frame that asks for a change.
C21_Witness ==
    /\ app = "updated_widget"
    /\ ~auto_mode
    /\ cycles > 0
    /\ last_recommendation # None
    /\ AbsV(last_recommendation[1]) >= U
    /\ dispatch = None
    /\ current_value = 20

\* The report on the bench is a histogram report that is severely saturated
\* and not extremely dark.
SevereNotDark ==
    /\ scene = "bench" /\ app = "updated_widget" /\ cycles = 1
    /\ verdict # None /\ verdict[1].method = "histogram"
    /\ ~verdict[1].call.raised
    /\ NormMean(verdict[1].call.results.weighted_mean) >= 2 * U
    /\ verdict[1].call.results.high_intensity_sum >= Dec(1, 100)
    /\ verdict[1].call.results.highest_bin_percentage > 5 * U

\* C22: for a histogram report that is severely saturated and not extremely
\* dark, the ladder selects the severe-saturation rung and the delta is no
\* increase.
C22_SevereBeforeOthers ==
    SevereNotDark
        => /\ HistogramRung(NormMean(verdict[1].call.results.weighted_mean),
                            verdict[1].call.results.high_intensity_sum,
                            verdict[1].call.results.highest_bin_percentage, 0) = 2
           /\ last_delta[1] <= 0

\* The newest entry of a history is the value.
Newest(history, value) == history # << >> /\ history[Len(history)] = value

\* C23: after every decision step the newest entry of the adjustment history
\* is the delta the step returned, and after a histogram step the newest
\* entry of the mean history is the normalized mean of the report.
C23_HistoriesRecordStep ==
    (scene = "bench" /\ cycles > 0 /\ verdict # None /\ ~verdict[1].call.raised)
        => /\ app = "updated_widget"
               => /\ Newest(last_adjustment_values, last_delta[1])
                  /\ verdict[1].method = "histogram"
                         => Newest(last_mean_values,
                                   NormMean(verdict[1].call.results.weighted_mean))
           /\ (app = "main" /\ verdict[1].method = "histogram")
               => /\ Newest(analyzer.last_adjustment_values, last_delta[1])
                  /\ Newest(analyzer.last_mean_values,
                            NormMean(verdict[1].call.results.weighted_mean))

\* C24: a critical-oscillation lock resets the oscillation tracking: right
\* after the lock its condition no longer holds, so the cycle after the pause
\* is a normal analysis.
C24_LockResetsTracking ==
    [][(app = "updated_widget" /\ cycles' = cycles + 1 /\ CriticalOscillation)
           => ~CriticalOscillation']_vars

\* C25: whenever the manual override is active the override timer is
\* pending, so the override ends by itself.
C25_OverrideHasTimer ==
    (app = "updated_widget" /\ manual_override_active) => override_timer # << >>

\* C26: in automatic mode without override the actuator percentage after a
\* fused cycle is the sum of the percentage and the fused delta, truncated
\* toward zero and clamped to 0..100: a delta between 0 and 1 leaves the
\* percentage as it is, and any negative delta lowers a percentage of at
\* least 1 by a whole point or more.
C26_TruncatedTarget ==
    [][(/\ app = "updated_widget" /\ cycles' = cycles + 1
        /\ auto_mode /\ ~manual_override_active /\ ~CriticalOscillation
        /\ last_delta' # << >>)
           => LET d == last_recommendation'[1]
                  sum == current_value * U + d
              IN  /\ current_value' \in 0..100
                  /\ sum <= 0 => current_value' = 0
                  /\ sum >= 100 * U => current_value' = 100
                  /\ (0 < sum /\ sum < 100 * U)
                         => /\ current_value' * U <= sum
                            /\ sum < (current_value' + 1) * U
                  /\ (0 < d /\ d < U) => current_value' = current_value
                  /\ (d < 0 /\ current_value >= 1)
                         => current_value' <= current_value - 1]_vars

\* A fused delta between -1 and 0 has lowered the percentage by one point,
\* and one between 0 and 1 has left it as it was.
C26_Witness ==
    /\ app = "updated_widget" /\ auto_mode
    /\ Len(trace) >= 3
    /\ \E i \in 2..Len(trace) :
           /\ trace[i].delta < 0 /\ trace[i].delta > -U
           /\ trace[i].target = trace[i - 1].target - U
    /\ \E i \in 2..Len(trace) :
           /\ trace[i].delta > 0 /\ trace[i].delta < U
           /\ trace[i].target = trace[i - 1].target

\* C27: while every frame is extremely oversaturated and only the histogram
\* method runs, the actuator percentage does not stay forever at a value
\* above 0 outside the critical region: again and again it is lowered, or is
\* 0, or lies in the critical region.
C27_KeepsLowering ==
    []<><<\/ current_value = 0
          \/ InCritical(current_value)
          \/ current_value' < current_value>>_vars

\* The first step on the bench put an image of positive weight to the
\* pixel-count estimator of updated_widget.py, whose report is not saturated
\* and counts no saturated pixel.
UnsaturatedPixelCount ==
    /\ scene = "bench" /\ app = "updated_widget" /\ cycles = 1
    /\ specimen # << >> /\ TotalWeight(specimen) > 0
    /\ verdict # None /\ verdict[1].method = "pixel_count"
    /\ ~verdict[1].call.raised
    /\ ~verdict[1].call.results.is_saturated
    /\ verdict[1].call.results.saturated_pixels = 0

\* C28: on the pixel-count report of a non-saturated image without saturated
\* pixels the delta follows the image's maximum intensity: +3.0 below 50,
\* +1.5 below 100, +1.0 below 150, +0.7 below 180, +0.5 below 220 and +0.3
\* from there on.
C28_DarkerGetsMore ==
    UnsaturatedPixelCount
        => last_delta =
               << IF MaxIntensity(specimen) < 50 THEN 3 * U
                  ELSE IF MaxIntensity(specimen) < 100 THEN Dec(15, 10)
                  ELSE IF MaxIntensity(specimen) < 150 THEN 1 * U
                  ELSE IF MaxIntensity(specimen) < 180 THEN Dec(7, 10)
                  ELSE IF MaxIntensity(specimen) < 220 THEN Dec(5, 10)
                  ELSE Dec(3, 10) >>

\* The first step on the bench put an image of positive weight to the
\* pixel-count estimator as main.py's ImageAnalyzer.analyze_image calls it.
AnalyzerPixelCount ==
    /\ scene = "bench" /\ app = "main" /\ cycles = 1
    /\ specimen # << >> /\ TotalWeight(specimen) > 0
    /\ verdict # None /\ verdict[1].method = "pixel_count"
    /\ ~verdict[1].call.raised

\* C29: on the pixel-count report of analyze_image the delta follows the
\* frame's percentage of saturated pixels: -1.0 above 5, -0.5 in (2, 5], 0.0
\* in [0.5, 2], +0.5 in [0.1, 0.5) and +1.0 below 0.1.
C29_SaturatedNeverRaised ==
    AnalyzerPixelCount
        => last_delta =
               << IF verdict[1].call.results.saturated_percentage > 5 * U
                  THEN -(1 * U)
                  ELSE IF verdict[1].call.results.saturated_percentage > 2 * U
                  THEN -Dec(5, 10)
                  ELSE IF verdict[1].call.results.saturated_percentage >= Dec(5, 10)
                  THEN 0
                  ELSE IF verdict[1].call.results.saturated_percentage >= Dec(1, 10)
                  THEN Dec(5, 10)
                  ELSE 1 * U >>

\* C30: a cycle whose automatic adjustment is not written to the actuator (no
\* connection, or a write error) leaves the actuator percentage as it was
\* before the cycle.
C30_FailedDispatchKeepsValue ==
    [][/\ (/\ app = "updated_widget" /\ cycles' = cycles + 1
           /\ ~CriticalOscillation
           /\ dispatch' # None /\ ~dispatch'[1].written)
          => current_value' = current_value
       /\ (/\ app = "main" /\ cycles' = cycles + 1
           /\ m_dispatch' # None /\ ~m_dispatch'[1].written)
          => m_current_value' = m_current_value]_vars

====
